---------------------------- MODULE Spec2Model ----------------------------
(***************************************************************************)
(* A model of the VIC-20 emulator core: the 6502 interpreter (cpu_6502.ts, *)
(* cpu_6502_internal.ts), the memory bus (memory.ts), the two VIA 6522     *)
(* chips (via_6522.ts) and the machine tick that clocks them (vic20.ts).   *)
(*                                                                         *)
(* The emulator is single threaded.  Every method of the source is a pure  *)
(* operator from a machine record m to the machine record after the call;  *)
(* a method that also returns a value yields [m |-> ..., v |-> ...].  A JS  *)
(* exception is the field m.err: once it is set the rest of the call is    *)
(* skipped, as the propagating exception skips it.                         *)
(***************************************************************************)
EXTENDS Integers, Sequences, FiniteSets, TLC

VARIABLES
    cpu,      \* cpu6502: Registers (PC, SP, A, X, Y, P.Flags), Cycles, requiresIrq,
              \* requiresNmi, lastPc, trapPc, trapHit, c
    mem,      \* Memory.mem: the non-zero cells of the 64K byte array
    bus,      \* Memory.readFunc / writeFunc: the memory model and whether the devices
              \* have installed their handlers
    via1,     \* via6522 "VIA1" at 0x9110 (drives NMI)
    via2,     \* via6522 "VIA2" at 0x9120 (drives IRQ)
    vic,      \* Vic6560: the raster cycle counter
    lastNmi,  \* Vic20.lastNmi
    err,      \* the exception that ended the last call, "none" when it returned
    host,     \* Vic20: break, debug, timeoutId, the frame() call in progress, and
              \* the timers of the window that are pending
    asm,      \* cpu6502d.Assemble: the lines left, pc, labels and bytes of the call
              \* in progress
    obs       \* what the last call did: the interrupts it serviced, the bytes it
              \* pushed, the device calls it made (a history variable)

vars == <<cpu, mem, bus, via1, via2, vic, lastNmi, err, host, asm, obs>>

-----------------------------------------------------------------------------
(* Bounds of the model.                                                    *)

\* cap on cpu.c, the number of cpu.cycle() calls of one run
MaxC == 18

\* cap on the number of machine ticks of one run
MaxTicks == 32

\* cap on the number of interrupt requests made to a CPU run on its own
MaxRequests == 2

\* the largest value a ROM image loads into a timer latch
MaxLatch == 2

\* the ticks of a VIA on its own beyond the count loaded into its timer
MaxViaTicks == 3

\* the reads, writes and resets of a run of a VIA on its own
MaxViaOps == 1

\* the calls of reset(), start() and stop() made by the application in a run
\* of the frame loop
MaxCalls == 3

\* the timers fired in a run of the frame loop
MaxFrames == 3

\* the reads of the interrupt line of a VIA on its own
MaxSamples == 3

-----------------------------------------------------------------------------
(* JavaScript's bitwise operators, on two's complement integers: a      *)
(* negative operand is an infinite run of leading one bits.                *)

RECURSIVE BitAnd(_, _)
\* a & b
BitAnd(a, b) ==
    IF a = 0 \/ b = 0 THEN 0
    ELSE IF a = -1 THEN b
    ELSE IF b = -1 THEN a
    ELSE (IF a % 2 = 1 /\ b % 2 = 1 THEN 1 ELSE 0) + 2 * BitAnd(a \div 2, b \div 2)

RECURSIVE BitOr(_, _)
\* a | b
BitOr(a, b) ==
    IF a = 0 THEN b
    ELSE IF b = 0 THEN a
    ELSE IF a = -1 \/ b = -1 THEN -1
    ELSE (IF a % 2 = 1 \/ b % 2 = 1 THEN 1 ELSE 0) + 2 * BitOr(a \div 2, b \div 2)

RECURSIVE BitXor(_, _)
\* a ^ b
BitXor(a, b) ==
    IF a = 0 THEN b
    ELSE IF b = 0 THEN a
    ELSE IF a = -1 THEN -b - 1
    ELSE IF b = -1 THEN -a - 1
    ELSE (IF a % 2 # b % 2 THEN 1 ELSE 0) + 2 * BitXor(a \div 2, b \div 2)

\* a & ~mask
BitClear(a, mask) == a - BitAnd(a, mask)

\* 1 << n
Pow2(n) == 2 ^ n

\* the value of a binding: The({e : x \in {v}}) is e with x standing for v
The(S) == CHOOSE x \in S : TRUE

\* Utils.ExtractBits: (value >> bitStart) & (2^(bitEnd - bitStart + 1) - 1)
ExtractBits(value, bitStart, bitEnd) ==
    (value \div Pow2(bitStart)) % Pow2(bitEnd - bitStart + 1)

\* Utils.msb: (value & 0xFFFF) >> 8
msb(value) == (value % \h10000) \div 256

\* Utils.lsb: value & 0xFF
lsb(value) == value % 256

\* Utils.signedByte
signedByte(unsignedByte) ==
    IF unsignedByte < \h80 THEN unsignedByte ELSE unsignedByte - \h100


-----------------------------------------------------------------------------
(* VIA 6522 (via_6522.ts).  A via record holds reg (the 16 registers),     *)
(* T2L_L, T2C, PB7, inhibitT1, inhibitT2, the CA1/CB1 edge state and the    *)
(* value the port callbacks getPortA / getPortB return.                     *)

\* Via6522RegisterEnum
R4_T1C_L == 4
R5_T1C_H == 5
R6_T1L_L == 6
R7_T1L_H == 7
R8_T2C_L == 8
R9_T2C_H == 9
RB_ACR == 11
RD_IFR == 13
RE_IER == 14

\* Via6522InterruptFlagRegisterEnum
R5_T2 == 5
R6_T1 == 6

\* via6522 as its field initialisers and constructor leave it
NewVia ==
    [reg |-> [i \in 0..15 |-> 0], T2L_L |-> 0, T2C |-> 0, PB7 |-> 0,
     inhibitT1 |-> TRUE, inhibitT2 |-> TRUE,
     lastCA1 |-> TRUE, CA1 |-> TRUE, lastCB1 |-> TRUE, CB1 |-> TRUE,
     portA |-> 255, portB |-> 255]

\* via6522.getReg
getReg(via, index) ==
    IF index = RD_IFR
    THEN ((via.reg[index] % 128) + (IF via.reg[index] % 128 # 0 THEN \h80 ELSE 0)) % 256
    ELSE IF index = RE_IER THEN BitOr(via.reg[index], \h80) % 256
    ELSE via.reg[index] % 256

\* via6522.setReg
setReg(via, index, value) ==
    [via EXCEPT !.reg[index % 16] = value % 256]

\* via6522.setIfr
setIfr(via, bit, status) ==
    setReg(via, RD_IFR,
           BitOr(BitClear(getReg(via, RD_IFR), Pow2(bit)),
                 (IF status THEN 1 ELSE 0) * Pow2(bit)) % 256)

\* via6522.getTimer
getTimer(via, index) ==
    IF index = 1 THEN getReg(via, R4_T1C_L) + getReg(via, R5_T1C_H) * 256
    ELSE via.T2C

\* via6522.setTimer
setTimer(via, index, value) ==
    IF index = 1
    THEN setReg(setReg(via, R4_T1C_L, value % 256), R5_T1C_H, (value \div 256) % 256)
    ELSE [via EXCEPT !.T2C = value]

\* via6522.decrementTimer
decrementTimer(via, index) == setTimer(via, index, getTimer(via, index) - 1)

\* via6522.cycleDown
cycleDown(via) == decrementTimer(decrementTimer(via, 1), 2)

\* timer1 that decides the time-out one count early
timer1_Early(via) ==
    IF getTimer(via, 1) > 1 THEN via
    ELSE IF ExtractBits(getReg(via, RB_ACR), 6, 6) = 1
    THEN setTimer([setIfr(via, R6_T1, TRUE) EXCEPT !.PB7 = 1, !.inhibitT1 = FALSE], 1,
                  getReg(via, R6_T1L_L) + getReg(via, R7_T1L_H) * 256)
    ELSE [setTimer(setIfr(via, R6_T1, TRUE), 1, \hFFFF) EXCEPT !.PB7 = 1, !.inhibitT1 = TRUE]

\* via6522.cycleUp, the first "if": timer 1 ran out
timer1(via) ==
    IF getTimer(via, 1) > 0 THEN via
    ELSE IF ExtractBits(getReg(via, RB_ACR), 6, 6) = 1
    THEN setTimer([setIfr(via, R6_T1, TRUE) EXCEPT !.PB7 = 1, !.inhibitT1 = FALSE], 1,
                  getReg(via, R6_T1L_L) + getReg(via, R7_T1L_H) * 256)
    ELSE [setTimer(setIfr(via, R6_T1, TRUE), 1, \hFFFF) EXCEPT !.PB7 = 1, !.inhibitT1 = TRUE]

\* via6522.cycleUp, the second "if": timer 2 ran out
timer2(via) ==
    IF getTimer(via, 2) > 0 THEN via
    ELSE setTimer(IF ~via.inhibitT2 THEN setIfr(via, R5_T2, TRUE) ELSE via, 2, \hFFFF)

\* via6522.cycleUp
cycleUp(via) ==
    timer2(timer1([via EXCEPT !.lastCA1 = via.CA1, !.lastCB1 = via.CB1,
                              !.CA1 = TRUE, !.CB1 = TRUE]))

\* via6522.irq, its two "if"s: the timer flags that raised the line are
\* cleared and their inhibit flags dropped
acknowledge(via, pending) ==
    The({ IF BitAnd(pending, \h20) # 0
          THEN setIfr([v1 EXCEPT !.inhibitT2 = FALSE], R5_T2, FALSE)
          ELSE v1 :
          v1 \in { IF BitAnd(pending, \h40) # 0
                   THEN setIfr([via EXCEPT !.inhibitT1 = FALSE], R6_T1, FALSE)
                   ELSE via } })

\* via6522.irq (a getter that changes the chip): [via |-> the chip after, v |-> the line]
via_irq(via) ==
    The({ [via |-> acknowledge(via, pending), v |-> pending > 0] :
          pending \in { BitAnd(BitAnd(BitAnd(BitAnd(getReg(via, RD_IFR),
                                                    IF via.inhibitT1 THEN -65 ELSE \hFF),
                                             IF via.inhibitT2 THEN -33 ELSE \hFF),
                                      getReg(via, RE_IER)),
                               \h7F) } })

\* via6522.read: [via |-> the chip after, v |-> the byte read]
via_read(via, register) ==
    CASE register = 0 ->
           [via |-> setIfr(setIfr(via, 3, FALSE), 4, FALSE),
            v |-> BitOr(BitClear(via.portB, getReg(via, 2)),
                        BitAnd(getReg(via, 0), getReg(via, 2))) % 256]
      [] register = 1 ->
           [via |-> setIfr(setIfr(via, 0, FALSE), 1, FALSE),
            v |-> BitClear(via.portA, getReg(via, 3))]
      [] register = R4_T1C_L ->
           [via |-> setIfr(via, R6_T1, FALSE), v |-> getReg(via, R4_T1C_L)]
      [] register = R8_T2C_L ->
           [via |-> setIfr([via EXCEPT !.inhibitT2 = FALSE], R5_T2, FALSE),
            v |-> getReg(via, R8_T2C_L)]
      [] register = 15 ->
           [via |-> via, v |-> BitClear(via.portA, getReg(via, 3))]
      [] OTHER -> [via |-> via, v |-> getReg(via, register)]

\* via6522.write
via_write(via, register, value) ==
    CASE register = 0 -> setIfr(setIfr(setReg(via, 0, value), 3, FALSE), 4, FALSE)
      [] register = 1 -> setIfr(setIfr(setReg(via, 1, value), 0, FALSE), 1, FALSE)
      [] register = R4_T1C_L -> setReg(via, R6_T1L_L, value)
      [] register = R5_T1C_H ->
           [setIfr(setReg(setReg(setReg(via, R7_T1L_H, value),
                                        R4_T1C_L, getReg(via, R6_T1L_L)),
                                 R5_T1C_H, value),
                   R6_T1, FALSE) EXCEPT !.inhibitT1 = FALSE]
      [] register = R7_T1L_H ->
           [setIfr(setReg(via, R7_T1L_H, value), R6_T1, FALSE) EXCEPT !.inhibitT1 = FALSE]
      [] register = R8_T2C_L -> [setReg(via, R8_T2C_L, value) EXCEPT !.T2L_L = value]
      [] register = R9_T2C_H ->
           [setIfr(setReg(setReg(via, R9_T2C_H, value), R8_T2C_L, via.T2L_L),
                   R5_T2, FALSE) EXCEPT !.inhibitT2 = FALSE,
                                        !.T2C = value * 256 + via.T2L_L]
      [] register = RD_IFR -> setReg(via, RD_IFR, BitClear(getReg(via, RD_IFR), value))
      [] register = RE_IER ->
           IF ExtractBits(value, 7, 7) = 1
           THEN setReg(via, RE_IER, BitOr(getReg(via, RE_IER), value))
           ELSE setReg(via, RE_IER, BitClear(getReg(via, RE_IER), value))
      [] register = 15 -> setReg(setReg(via, 15, value), 1, value)
      [] OTHER -> setReg(via, register, value)

RECURSIVE via_writes(_, _)
\* a run of via.write calls: ws is a sequence of <<register, value>>
via_writes(via, ws) ==
    IF ws = <<>> THEN via
    ELSE via_writes(via_write(via, Head(ws)[1], Head(ws)[2]), Tail(ws))

\* via6522.reset
via_reset(via) ==
    LET ws == [i \in 1..4 |-> <<i - 1, 0>>] \o [i \in 1..5 |-> <<i + 10, 0>>]
              \o [i \in 1..7 |-> <<i + 3, \hFF>>]
    IN  [via_writes(via, ws) EXCEPT !.inhibitT1 = TRUE, !.inhibitT2 = TRUE]

-----------------------------------------------------------------------------
(* Memory (memory.ts).  A machine m is the record of the state variables:  *)
(* m.mem holds the non-zero cells of the Uint8Array, m.bus says which      *)
(* readFunc / writeFunc handlers are installed, m.err is the exception     *)
(* that ended the current call ("none" when there is none), m.log the      *)
(* calls observed during the current step, each a pair <<name, number>>.   *)

\* a throw: the first exception ends the call
Throw(m, e) == IF m.err = "none" THEN [m EXCEPT !.err = e] ELSE m

\* an entry of the step's call log
Log(m, e) == IF m.err = "none" THEN [m EXCEPT !.log = Append(@, e)] ELSE m

\* Uint8Array element read: this.mem[offset]
readMem(ram, offset) == IF offset \in DOMAIN ram THEN ram[offset] ELSE 0

\* Uint8Array element write: this.mem[offset] = value (stored modulo 256)
writeMem(ram, offset, value) ==
    IF value % 256 = 0
    THEN [a \in (DOMAIN ram) \ {offset} |-> ram[a]]
    ELSE [a \in (DOMAIN ram) \cup {offset} |-> IF a = offset THEN value % 256 ELSE ram[a]]

\* Memory.loadData: data is a sequence of bytes; the loop of writeMem calls
\* leaves data[i] at offset + i - 1 and every other cell as it was
loadData(ram, data, offset) ==
    [a \in ((DOMAIN ram) \ {offset + i - 1 : i \in 1..Len(data)})
            \cup {offset + i - 1 : i \in {j \in 1..Len(data) : data[j] % 256 # 0}} |->
        IF a - offset + 1 \in 1..Len(data) THEN data[a - offset + 1] % 256 ELSE ram[a]]

\* the handler the constructors of Memory, via6522 and Vic6560 leave in
\* readFunc[offset] / writeFunc[offset]
Handler(b, offset, writing) ==
    LET in(lo, hi) == offset >= lo /\ offset <= hi
        e == b.expansion
    IN  IF ~in(0, \hFFFF) THEN "undefined"
        ELSE IF b.devices /\ in(\h9000, \h900F) THEN "vic"
        ELSE IF b.devices /\ in(\h9110, \h911F) THEN "via1"
        ELSE IF b.devices /\ in(\h9120, \h912F) THEN "via2"
        ELSE IF ~writing \/ e = "test" THEN "mem"
        ELSE IF in(\h9000, \h90FF) \/ in(\h9110, \h912F) \/ in(\h8000, \h8FFF) THEN "null"
        ELSE IF in(\h0400, \h0FFF)
             THEN (IF e \in {"expanded_3k", "expanded_11k", "expanded_35k"} THEN "mem" ELSE "null")
        ELSE IF in(\h2000, \h3FFF)
             THEN (IF e \in {"expanded_8k", "expanded_11k", "expanded_16k", "expanded_24k",
                             "expanded_32k", "expanded_35k"} THEN "mem" ELSE "null")
        ELSE IF in(\h4000, \h5FFF)
             THEN (IF e \in {"expanded_16k", "expanded_24k", "expanded_32k", "expanded_35k"}
                   THEN "mem" ELSE "null")
        ELSE IF in(\h6000, \h7FFF)
             THEN (IF e \in {"expanded_24k", "expanded_32k", "expanded_35k"} THEN "mem" ELSE "null")
        ELSE IF in(\hA000, \hBFFF)
             THEN (IF e \in {"expanded_32k", "expanded_35k"} THEN "mem" ELSE "null")
        ELSE "mem"

\* VicControlRegisters.read
vic_read(chip, offset) == chip.ControlRegisters[offset % 16]

\* VicControlRegisters.write
vic_write(chip, offset, value) == [chip EXCEPT !.ControlRegisters[offset % 16] = value]

\* Memory.readByte through the handler h installed at the offset:
\* [m |-> the machine after, v |-> the byte]
readFunc(m, h, offset) ==
    IF m.err # "none" THEN [m |-> m, v |-> 0]
    ELSE IF h = "undefined" THEN [m |-> Throw(m, "TypeError"), v |-> 0]
    ELSE IF h \in {"via1", "via2"}
    THEN The({ [m |-> [m EXCEPT ![h] = r.via], v |-> r.v] :
               r \in {via_read(m[h], offset % 16)} })
    ELSE IF h = "vic" THEN [m |-> m, v |-> vic_read(m.vic, offset - \h9000)]
    ELSE [m |-> m, v |-> readMem(m.mem, offset)]

\* Memory.readByte
readByte(m, offset) == readFunc(m, Handler(m.bus, offset, FALSE), offset)

\* Memory.writeByte through the handler h installed at the offset
writeFunc(m, h, offset, value) ==
    IF m.err # "none" THEN m
    ELSE IF h = "undefined" THEN Throw(m, "TypeError")
    ELSE IF h \in {"via1", "via2"} THEN [m EXCEPT ![h] = via_write(@, offset % 16, value)]
    ELSE IF h = "vic" THEN [m EXCEPT !.vic = vic_write(@, offset - \h9000, value)]
    ELSE IF h = "null" THEN m
    ELSE [m EXCEPT !.mem = writeMem(@, offset, value)]

\* Memory.writeByte
writeByte(m, offset, value) == writeFunc(m, Handler(m.bus, offset, TRUE), offset, value)

\* Memory.readWord: lo + (hi << 8), the high byte read at offset + 1 unwrapped
readWord(m, offset) ==
    The({ The({ [m |-> hi.m, v |-> lo.v + hi.v * 256] :
                hi \in {readByte(lo.m, offset + 1)} }) :
          lo \in {readByte(m, offset)} })

-----------------------------------------------------------------------------
(* The 6502 (cpu_6502_internal.ts).  m.cpu.P is ProcessorStatus.Flags.     *)

\* ProcessorStatusFlag
Carry == 1
Zero == 2
Interrupt == 4
Decimal == 8
Break == 16
Overflow == 64
Negative == 128

\* first address of the stack page
StackBase == 256

\* ProcessorStatus.isSetC .. isSetN
isSet(m, flag) == BitAnd(m.cpu.P, flag) # 0

\* ProcessorStatus.setC .. setN / clearC .. clearN, chosen by a condition
setFlag(m, flag, on) ==
    IF m.err # "none" THEN m
    ELSE IF on THEN [m EXCEPT !.cpu.P = BitOr(@, flag)]
    ELSE [m EXCEPT !.cpu.P = BitClear(@, flag)]

\* the rest of a method, which runs only if the call so far has not thrown
Then(m, n) == IF m.err = "none" THEN n ELSE m

\* "cpu.Registers.R = <a call returning r>": the register takes r.v
Assign(r, R) == Then(r.m, [r.m EXCEPT !.cpu[R] = r.v])

\* "cpu.Registers.R = value"
SetRegister(m, R, value) == Then(m, [m EXCEPT !.cpu[R] = value])

\* cpu6502Internal.push
push(m, value) ==
    SetRegister(Log(writeByte(m, StackBase + m.cpu.SP, value), <<"push", value % 256>>),
                "SP", (m.cpu.SP - 1) % 256)

\* cpu6502Internal.pop
pop(m) ==
    IF m.err # "none" THEN [m |-> m, v |-> 0]
    ELSE readByte([m EXCEPT !.cpu.SP = (@ + 1) % 256], StackBase + ((m.cpu.SP + 1) % 256))

\* cpu6502Internal.rotate: [m |-> flags updated, v |-> the shifted value]
rotate(m, value, shiftRight, rot) ==
    LET oldCarry == IF isSet(m, Carry) THEN 1 ELSE 0
        newCarry == IF shiftRight THEN BitAnd(value, 1) ELSE value \div 128
        shifted == IF shiftRight THEN value \div 2 ELSE value * 2
        result == IF rot
                  THEN (IF shiftRight THEN BitOr(shifted, oldCarry * 128)
                        ELSE BitOr(shifted, oldCarry))
                  ELSE shifted
    IN  [m |-> setFlag(m, Carry, newCarry # 0), v |-> result]

\* setzn without the truncation of the value to a byte
setzn_Untruncated(m, v) ==
    [m |-> setFlag(setFlag(m, Zero, v = 0), Negative, BitAnd(v, \h80) # 0), v |-> v]

\* cpu6502Internal.setzn: [m |-> Z and N updated, v |-> v & 0xff]
setzn(m, v) ==
    LET b == v % 256
    IN  [m |-> setFlag(setFlag(m, Zero, b = 0), Negative, BitAnd(b, \h80) # 0), v |-> b]

\* cpu6502Internal.bit
bit(m, memory, addressMode) ==
    LET f == IF addressMode # "imm"
             THEN setFlag(setFlag(m, Overflow, ExtractBits(memory, 6, 6) # 0),
                          Negative, ExtractBits(memory, 7, 7) # 0)
             ELSE m
    IN  setFlag(f, Zero, BitAnd(m.cpu.A, memory) = 0)

\* cpu6502Internal.compare
compare(m, register, memory) ==
    setFlag(setzn(m, register - memory).m, Carry, register >= memory)

\* cpu6502Internal.getPage
getPage(offset) == (offset % \h10000) \div 256

\* cpu6502Internal.branch
branch(m, condition, offset) ==
    LET nextInstructionOffset == m.cpu.PC % \h10000
        branchOffset == (nextInstructionOffset + signedByte(offset)) % \h10000
    IN  IF m.err # "none" \/ ~condition THEN m
        ELSE [m EXCEPT !.cpu.PC = branchOffset,
                       !.cpu.Cycles = @ + 1
                           + (IF getPage(nextInstructionOffset) # getPage(branchOffset)
                              THEN 1 ELSE 0)]

\* the common body of irq() and nmi(): push PC and P.Flags, set I, load the vector
Interrupt_entry(m, kind, vector) ==
    Assign(readWord(setFlag(push(push(push(Log(m, <<kind, vector>>),
                                           msb(m.cpu.PC)),
                                      lsb(m.cpu.PC)),
                                 m.cpu.P),
                            Interrupt, TRUE),
                    vector),
           "PC")

\* cpu6502Internal.irq
irq(m) == Interrupt_entry(m, "irq", \hFFFE)

\* cpu6502Internal.nmi
nmi(m) == Interrupt_entry(m, "nmi", \hFFFA)

\* cpu6502Internal.brk
brk(m) ==
    LET pc == m.cpu.PC + 1
        status == BitOr(BitOr(m.cpu.P, 16), 32)
    IN  Assign(readWord(setFlag(push(push(push(Log(m, <<"brk", \hFFFE>>), msb(pc)),
                                          lsb(pc)),
                                     status),
                                Interrupt, TRUE),
                        \hFFFE),
               "PC")

\* the word two pops make, low byte first: [m |-> the machine after, v |-> the word]
popWord(m) ==
    The({ The({ [m |-> high.m, v |-> BitOr(high.v * 256, low.v)] :
                high \in {pop(low.m)} }) :
          low \in {pop(m)} })

\* cpu6502Internal.rti
rti(m) == Assign(popWord(Assign(pop(m), "P")), "PC")

\* cpu6502Internal.jsr
jsr(m, address) ==
    LET nextInstOffset == (m.cpu.PC - 1) % \h10000
    IN  SetRegister(push(push(m, msb(nextInstOffset % \h10000)),
                         lsb(nextInstOffset % \h10000)),
                    "PC", address)

\* cpu6502Internal.rts
rts(m) ==
    The({ SetRegister(address.m, "PC", address.v + 1) : address \in {popWord(m)} })

\* cpu6502Internal.jmp
jmp(m, offset, isAbs) ==
    IF isAbs THEN SetRegister(m, "PC", offset)
    ELSE Assign(readWord(m, offset), "PC")

\* cpu6502Internal.FetchInstruction: [m |-> PC advanced, v |-> the opcode byte]
FetchInstruction(m) ==
    The({ [m |-> SetRegister(instruction.m, "PC", (m.cpu.PC + 1) % \h10000),
           v |-> instruction.v] :
          instruction \in {readByte(m, m.cpu.PC)} })

\* cpu6502Internal.adcNonBcd
adcNonBcd(m, value) ==
    LET carryIn == IF isSet(m, Carry) THEN 1 ELSE 0
        result == m.cpu.A + value + carryIn
        carryOut == BitAnd(result, \h100) \div 256
        c6 == BitAnd(ExtractBits(value, 0, 6) + ExtractBits(m.cpu.A, 0, 6) + carryIn, \h80) \div 128
    IN  Assign(setzn(setFlag(setFlag(m, Carry, carryOut # 0),
                             Overflow, BitXor(c6, carryOut) # 0),
                     BitAnd(result, \hFF)),
               "A")

\* adcBcd without the carry from the low digit into the high digit
adcBcd_NoHalfCarry(m, value) ==
    LET A == m.cpu.A
        carryIn == IF isSet(m, Carry) THEN 1 ELSE 0
        tempb == BitAnd(A + value + carryIn, \hFF)
        al0 == BitAnd(A, \hF) + BitAnd(value, \hF) + carryIn
        al == IF al0 > 9 THEN BitAnd(al0 - 10, \hF) ELSE al0
        ah0 == (A \div 16) + (value \div 16)
        ah == IF ah0 > 9 THEN BitAnd(ah0 - 10, \hF) ELSE ah0
    IN  SetRegister(
            setFlag(setFlag(setFlag(setFlag(m, Zero, tempb = 0),
                                    Negative, BitAnd(ah0, 8) # 0),
                            Overflow, BitAnd(BitXor(A, value), \h80) = 0
                                      /\ BitAnd(BitXor(A, ah0 * 16), \h80) # 0),
                    Carry, ah0 > 9),
            "A", BitAnd(BitOr(BitAnd(al, \hF), ah * 16), \hFF))

\* cpu6502Internal.adcBcd
adcBcd(m, value) ==
    LET A == m.cpu.A
        carryIn == IF isSet(m, Carry) THEN 1 ELSE 0
        tempb == BitAnd(A + value + carryIn, \hFF)
        al0 == BitAnd(A, \hF) + BitAnd(value, \hF) + carryIn
        al == IF al0 > 9 THEN BitAnd(al0 - 10, \hF) ELSE al0
        ah0 == (IF al0 > 9 THEN 1 ELSE 0) + (A \div 16) + (value \div 16)
        ah == IF ah0 > 9 THEN BitAnd(ah0 - 10, \hF) ELSE ah0
    IN  SetRegister(
            setFlag(setFlag(setFlag(setFlag(m, Zero, tempb = 0),
                                    Negative, BitAnd(ah0, 8) # 0),
                            Overflow, BitAnd(BitXor(A, value), \h80) = 0
                                      /\ BitAnd(BitXor(A, ah0 * 16), \h80) # 0),
                    Carry, ah0 > 9),
            "A", BitAnd(BitOr(BitAnd(al, \hF), ah * 16), \hFF))

\* cpu6502Internal.adc
adc(m, value) == IF isSet(m, Decimal) THEN adcBcd(m, value) ELSE adcNonBcd(m, value)

\* cpu6502Internal.sbcBcd
sbcBcd(m, value) ==
    LET A == m.cpu.A
        carry == IF isSet(m, Carry) THEN 0 ELSE 1
        al0 == BitAnd(A, \hF) - BitAnd(value, \hF) - carry
        ah0 == (A \div 16) - (value \div 16)
        al == IF BitAnd(al0, \h10) # 0 THEN BitAnd(al0 - 6, \hF) ELSE al0
        ah1 == IF BitAnd(al0, \h10) # 0 THEN ah0 - 1 ELSE ah0
        ah == IF BitAnd(ah1, \h10) # 0 THEN BitAnd(ah1 - 6, \hF) ELSE ah1
        result == A - value - carry
    IN  SetRegister(
            setFlag(setFlag(setFlag(setFlag(m, Negative, BitAnd(result, \h80) # 0),
                                    Zero, BitAnd(result, \hFF) = 0),
                            Overflow,
                            BitAnd(BitAnd(BitXor(A, result), BitXor(value, A)), \h80) # 0),
                    Carry, BitAnd(result, \h100) = 0),
            "A", BitOr(al, ah * 16))

\* cpu6502Internal.sbc
sbc(m, value) ==
    IF isSet(m, Decimal) THEN sbcBcd(m, value) ELSE adcNonBcd(m, BitXor(value, \hFF))

-----------------------------------------------------------------------------
(* The interpreter (cpu_6502.ts).                                          *)

\* cpu6502.opCodes6502Documented, the only table the constructor installs:
\* opcode byte -> its OpCodeGenRule
opCodes6502Documented ==
     (0 :> [instruction |-> "BRK", cycles |-> 7, addressMode |-> "impl", read |-> FALSE, write |-> FALSE])
  @@ (1 :> [instruction |-> "ORA", cycles |-> 6, addressMode |-> "X,ind", read |-> TRUE, write |-> FALSE])
  @@ (5 :> [instruction |-> "ORA", cycles |-> 3, addressMode |-> "zpg", read |-> TRUE, write |-> FALSE])
  @@ (6 :> [instruction |-> "ASL", cycles |-> 5, addressMode |-> "zpg", read |-> TRUE, write |-> TRUE])
  @@ (8 :> [instruction |-> "PHP", cycles |-> 3, addressMode |-> "impl", read |-> FALSE, write |-> FALSE])
  @@ (9 :> [instruction |-> "ORA", cycles |-> 2, addressMode |-> "#", read |-> FALSE, write |-> FALSE])
  @@ (10 :> [instruction |-> "ASL", cycles |-> 2, addressMode |-> "A", read |-> FALSE, write |-> FALSE])
  @@ (13 :> [instruction |-> "ORA", cycles |-> 4, addressMode |-> "abs", read |-> TRUE, write |-> FALSE])
  @@ (14 :> [instruction |-> "ASL", cycles |-> 6, addressMode |-> "abs", read |-> TRUE, write |-> TRUE])
  @@ (16 :> [instruction |-> "BPL", cycles |-> 2, addressMode |-> "rel", read |-> FALSE, write |-> FALSE])
  @@ (17 :> [instruction |-> "ORA", cycles |-> 5, addressMode |-> "ind,Y", read |-> TRUE, write |-> FALSE])
  @@ (21 :> [instruction |-> "ORA", cycles |-> 4, addressMode |-> "zpg,X", read |-> TRUE, write |-> FALSE])
  @@ (22 :> [instruction |-> "ASL", cycles |-> 6, addressMode |-> "zpg,X", read |-> TRUE, write |-> TRUE])
  @@ (24 :> [instruction |-> "CLC", cycles |-> 2, addressMode |-> "impl", read |-> FALSE, write |-> FALSE])
  @@ (25 :> [instruction |-> "ORA", cycles |-> 4, addressMode |-> "abs,Y", read |-> TRUE, write |-> FALSE])
  @@ (29 :> [instruction |-> "ORA", cycles |-> 4, addressMode |-> "abs,X", read |-> TRUE, write |-> FALSE])
  @@ (30 :> [instruction |-> "ASL", cycles |-> 7, addressMode |-> "abs,X", read |-> TRUE, write |-> TRUE])
  @@ (32 :> [instruction |-> "JSR", cycles |-> 6, addressMode |-> "abs", read |-> FALSE, write |-> FALSE])
  @@ (33 :> [instruction |-> "AND", cycles |-> 6, addressMode |-> "X,ind", read |-> TRUE, write |-> FALSE])
  @@ (36 :> [instruction |-> "BIT", cycles |-> 3, addressMode |-> "zpg", read |-> TRUE, write |-> FALSE])
  @@ (37 :> [instruction |-> "AND", cycles |-> 3, addressMode |-> "zpg", read |-> TRUE, write |-> FALSE])
  @@ (38 :> [instruction |-> "ROL", cycles |-> 5, addressMode |-> "zpg", read |-> TRUE, write |-> TRUE])
  @@ (40 :> [instruction |-> "PLP", cycles |-> 4, addressMode |-> "impl", read |-> FALSE, write |-> FALSE])
  @@ (41 :> [instruction |-> "AND", cycles |-> 2, addressMode |-> "#", read |-> FALSE, write |-> FALSE])
  @@ (42 :> [instruction |-> "ROL", cycles |-> 2, addressMode |-> "A", read |-> FALSE, write |-> FALSE])
  @@ (44 :> [instruction |-> "BIT", cycles |-> 4, addressMode |-> "abs", read |-> TRUE, write |-> FALSE])
  @@ (45 :> [instruction |-> "AND", cycles |-> 4, addressMode |-> "abs", read |-> TRUE, write |-> FALSE])
  @@ (46 :> [instruction |-> "ROL", cycles |-> 6, addressMode |-> "abs", read |-> TRUE, write |-> TRUE])
  @@ (48 :> [instruction |-> "BMI", cycles |-> 2, addressMode |-> "rel", read |-> FALSE, write |-> FALSE])
  @@ (49 :> [instruction |-> "AND", cycles |-> 5, addressMode |-> "ind,Y", read |-> TRUE, write |-> FALSE])
  @@ (53 :> [instruction |-> "AND", cycles |-> 4, addressMode |-> "zpg,X", read |-> TRUE, write |-> FALSE])
  @@ (54 :> [instruction |-> "ROL", cycles |-> 6, addressMode |-> "zpg,X", read |-> TRUE, write |-> TRUE])
  @@ (56 :> [instruction |-> "SEC", cycles |-> 2, addressMode |-> "impl", read |-> FALSE, write |-> FALSE])
  @@ (57 :> [instruction |-> "AND", cycles |-> 4, addressMode |-> "abs,Y", read |-> TRUE, write |-> FALSE])
  @@ (61 :> [instruction |-> "AND", cycles |-> 4, addressMode |-> "abs,X", read |-> TRUE, write |-> FALSE])
  @@ (62 :> [instruction |-> "ROL", cycles |-> 7, addressMode |-> "abs,X", read |-> TRUE, write |-> TRUE])
  @@ (64 :> [instruction |-> "RTI", cycles |-> 6, addressMode |-> "impl", read |-> FALSE, write |-> FALSE])
  @@ (65 :> [instruction |-> "EOR", cycles |-> 6, addressMode |-> "X,ind", read |-> TRUE, write |-> FALSE])
  @@ (69 :> [instruction |-> "EOR", cycles |-> 3, addressMode |-> "zpg", read |-> TRUE, write |-> FALSE])
  @@ (70 :> [instruction |-> "LSR", cycles |-> 5, addressMode |-> "zpg", read |-> TRUE, write |-> TRUE])
  @@ (72 :> [instruction |-> "PHA", cycles |-> 3, addressMode |-> "impl", read |-> FALSE, write |-> FALSE])
  @@ (73 :> [instruction |-> "EOR", cycles |-> 2, addressMode |-> "#", read |-> FALSE, write |-> FALSE])
  @@ (74 :> [instruction |-> "LSR", cycles |-> 2, addressMode |-> "A", read |-> FALSE, write |-> FALSE])
  @@ (76 :> [instruction |-> "JMP", cycles |-> 3, addressMode |-> "abs", read |-> FALSE, write |-> FALSE])
  @@ (77 :> [instruction |-> "EOR", cycles |-> 4, addressMode |-> "abs", read |-> TRUE, write |-> FALSE])
  @@ (78 :> [instruction |-> "LSR", cycles |-> 6, addressMode |-> "abs", read |-> TRUE, write |-> TRUE])
  @@ (80 :> [instruction |-> "BVC", cycles |-> 2, addressMode |-> "rel", read |-> FALSE, write |-> FALSE])
  @@ (81 :> [instruction |-> "EOR", cycles |-> 5, addressMode |-> "ind,Y", read |-> TRUE, write |-> FALSE])
  @@ (85 :> [instruction |-> "EOR", cycles |-> 4, addressMode |-> "zpg,X", read |-> TRUE, write |-> FALSE])
  @@ (86 :> [instruction |-> "LSR", cycles |-> 6, addressMode |-> "zpg,X", read |-> TRUE, write |-> TRUE])
  @@ (88 :> [instruction |-> "CLI", cycles |-> 2, addressMode |-> "impl", read |-> FALSE, write |-> FALSE])
  @@ (89 :> [instruction |-> "EOR", cycles |-> 4, addressMode |-> "abs,Y", read |-> TRUE, write |-> FALSE])
  @@ (93 :> [instruction |-> "EOR", cycles |-> 4, addressMode |-> "abs,X", read |-> TRUE, write |-> FALSE])
  @@ (94 :> [instruction |-> "LSR", cycles |-> 7, addressMode |-> "abs,X", read |-> TRUE, write |-> TRUE])
  @@ (96 :> [instruction |-> "RTS", cycles |-> 6, addressMode |-> "impl", read |-> FALSE, write |-> FALSE])
  @@ (97 :> [instruction |-> "ADC", cycles |-> 6, addressMode |-> "X,ind", read |-> TRUE, write |-> FALSE])
  @@ (101 :> [instruction |-> "ADC", cycles |-> 3, addressMode |-> "zpg", read |-> TRUE, write |-> FALSE])
  @@ (102 :> [instruction |-> "ROR", cycles |-> 5, addressMode |-> "zpg", read |-> TRUE, write |-> TRUE])
  @@ (104 :> [instruction |-> "PLA", cycles |-> 4, addressMode |-> "impl", read |-> FALSE, write |-> FALSE])
  @@ (105 :> [instruction |-> "ADC", cycles |-> 2, addressMode |-> "#", read |-> FALSE, write |-> FALSE])
  @@ (106 :> [instruction |-> "ROR", cycles |-> 2, addressMode |-> "A", read |-> FALSE, write |-> FALSE])
  @@ (108 :> [instruction |-> "JMP", cycles |-> 5, addressMode |-> "ind", read |-> FALSE, write |-> FALSE])
  @@ (109 :> [instruction |-> "ADC", cycles |-> 4, addressMode |-> "abs", read |-> TRUE, write |-> FALSE])
  @@ (110 :> [instruction |-> "ROR", cycles |-> 6, addressMode |-> "abs", read |-> TRUE, write |-> TRUE])
  @@ (112 :> [instruction |-> "BVS", cycles |-> 2, addressMode |-> "rel", read |-> FALSE, write |-> FALSE])
  @@ (113 :> [instruction |-> "ADC", cycles |-> 5, addressMode |-> "ind,Y", read |-> TRUE, write |-> FALSE])
  @@ (117 :> [instruction |-> "ADC", cycles |-> 4, addressMode |-> "zpg,X", read |-> TRUE, write |-> FALSE])
  @@ (118 :> [instruction |-> "ROR", cycles |-> 6, addressMode |-> "zpg,X", read |-> TRUE, write |-> TRUE])
  @@ (120 :> [instruction |-> "SEI", cycles |-> 2, addressMode |-> "impl", read |-> FALSE, write |-> FALSE])
  @@ (121 :> [instruction |-> "ADC", cycles |-> 4, addressMode |-> "abs,Y", read |-> TRUE, write |-> FALSE])
  @@ (125 :> [instruction |-> "ADC", cycles |-> 4, addressMode |-> "abs,X", read |-> TRUE, write |-> FALSE])
  @@ (126 :> [instruction |-> "ROR", cycles |-> 7, addressMode |-> "abs,X", read |-> TRUE, write |-> TRUE])
  @@ (129 :> [instruction |-> "STA", cycles |-> 6, addressMode |-> "X,ind", read |-> FALSE, write |-> TRUE])
  @@ (132 :> [instruction |-> "STY", cycles |-> 3, addressMode |-> "zpg", read |-> FALSE, write |-> TRUE])
  @@ (133 :> [instruction |-> "STA", cycles |-> 3, addressMode |-> "zpg", read |-> FALSE, write |-> TRUE])
  @@ (134 :> [instruction |-> "STX", cycles |-> 3, addressMode |-> "zpg", read |-> FALSE, write |-> TRUE])
  @@ (136 :> [instruction |-> "DEY", cycles |-> 2, addressMode |-> "impl", read |-> FALSE, write |-> FALSE])
  @@ (138 :> [instruction |-> "TXA", cycles |-> 2, addressMode |-> "impl", read |-> FALSE, write |-> FALSE])
  @@ (140 :> [instruction |-> "STY", cycles |-> 4, addressMode |-> "abs", read |-> FALSE, write |-> TRUE])
  @@ (141 :> [instruction |-> "STA", cycles |-> 4, addressMode |-> "abs", read |-> FALSE, write |-> TRUE])
  @@ (142 :> [instruction |-> "STX", cycles |-> 4, addressMode |-> "abs", read |-> FALSE, write |-> TRUE])
  @@ (144 :> [instruction |-> "BCC", cycles |-> 2, addressMode |-> "rel", read |-> FALSE, write |-> FALSE])
  @@ (145 :> [instruction |-> "STA", cycles |-> 6, addressMode |-> "ind,Y", read |-> FALSE, write |-> TRUE])
  @@ (148 :> [instruction |-> "STY", cycles |-> 4, addressMode |-> "zpg,X", read |-> FALSE, write |-> TRUE])
  @@ (149 :> [instruction |-> "STA", cycles |-> 4, addressMode |-> "zpg,X", read |-> FALSE, write |-> TRUE])
  @@ (150 :> [instruction |-> "STX", cycles |-> 4, addressMode |-> "zpg,Y", read |-> FALSE, write |-> TRUE])
  @@ (152 :> [instruction |-> "TYA", cycles |-> 2, addressMode |-> "impl", read |-> FALSE, write |-> FALSE])
  @@ (153 :> [instruction |-> "STA", cycles |-> 5, addressMode |-> "abs,Y", read |-> FALSE, write |-> TRUE])
  @@ (154 :> [instruction |-> "TXS", cycles |-> 2, addressMode |-> "impl", read |-> FALSE, write |-> FALSE])
  @@ (157 :> [instruction |-> "STA", cycles |-> 5, addressMode |-> "abs,X", read |-> FALSE, write |-> TRUE])
  @@ (160 :> [instruction |-> "LDY", cycles |-> 2, addressMode |-> "#", read |-> FALSE, write |-> FALSE])
  @@ (161 :> [instruction |-> "LDA", cycles |-> 6, addressMode |-> "X,ind", read |-> TRUE, write |-> FALSE])
  @@ (162 :> [instruction |-> "LDX", cycles |-> 2, addressMode |-> "#", read |-> FALSE, write |-> FALSE])
  @@ (164 :> [instruction |-> "LDY", cycles |-> 3, addressMode |-> "zpg", read |-> TRUE, write |-> FALSE])
  @@ (165 :> [instruction |-> "LDA", cycles |-> 3, addressMode |-> "zpg", read |-> TRUE, write |-> FALSE])
  @@ (166 :> [instruction |-> "LDX", cycles |-> 3, addressMode |-> "zpg", read |-> TRUE, write |-> FALSE])
  @@ (168 :> [instruction |-> "TAY", cycles |-> 2, addressMode |-> "impl", read |-> FALSE, write |-> FALSE])
  @@ (169 :> [instruction |-> "LDA", cycles |-> 2, addressMode |-> "#", read |-> FALSE, write |-> FALSE])
  @@ (170 :> [instruction |-> "TAX", cycles |-> 2, addressMode |-> "impl", read |-> FALSE, write |-> FALSE])
  @@ (172 :> [instruction |-> "LDY", cycles |-> 4, addressMode |-> "abs", read |-> TRUE, write |-> FALSE])
  @@ (173 :> [instruction |-> "LDA", cycles |-> 4, addressMode |-> "abs", read |-> TRUE, write |-> FALSE])
  @@ (174 :> [instruction |-> "LDX", cycles |-> 4, addressMode |-> "abs", read |-> TRUE, write |-> FALSE])
  @@ (176 :> [instruction |-> "BCS", cycles |-> 2, addressMode |-> "rel", read |-> FALSE, write |-> FALSE])
  @@ (177 :> [instruction |-> "LDA", cycles |-> 5, addressMode |-> "ind,Y", read |-> TRUE, write |-> FALSE])
  @@ (180 :> [instruction |-> "LDY", cycles |-> 4, addressMode |-> "zpg,X", read |-> TRUE, write |-> FALSE])
  @@ (181 :> [instruction |-> "LDA", cycles |-> 4, addressMode |-> "zpg,X", read |-> TRUE, write |-> FALSE])
  @@ (182 :> [instruction |-> "LDX", cycles |-> 4, addressMode |-> "zpg,Y", read |-> TRUE, write |-> FALSE])
  @@ (184 :> [instruction |-> "CLV", cycles |-> 2, addressMode |-> "impl", read |-> FALSE, write |-> FALSE])
  @@ (185 :> [instruction |-> "LDA", cycles |-> 4, addressMode |-> "abs,Y", read |-> TRUE, write |-> FALSE])
  @@ (186 :> [instruction |-> "TSX", cycles |-> 2, addressMode |-> "impl", read |-> FALSE, write |-> FALSE])
  @@ (188 :> [instruction |-> "LDY", cycles |-> 4, addressMode |-> "abs,X", read |-> TRUE, write |-> FALSE])
  @@ (189 :> [instruction |-> "LDA", cycles |-> 4, addressMode |-> "abs,X", read |-> TRUE, write |-> FALSE])
  @@ (190 :> [instruction |-> "LDX", cycles |-> 4, addressMode |-> "abs,Y", read |-> TRUE, write |-> FALSE])
  @@ (192 :> [instruction |-> "CPY", cycles |-> 2, addressMode |-> "#", read |-> FALSE, write |-> FALSE])
  @@ (193 :> [instruction |-> "CMP", cycles |-> 6, addressMode |-> "X,ind", read |-> TRUE, write |-> FALSE])
  @@ (196 :> [instruction |-> "CPY", cycles |-> 3, addressMode |-> "zpg", read |-> TRUE, write |-> FALSE])
  @@ (197 :> [instruction |-> "CMP", cycles |-> 3, addressMode |-> "zpg", read |-> TRUE, write |-> FALSE])
  @@ (198 :> [instruction |-> "DEC", cycles |-> 5, addressMode |-> "zpg", read |-> TRUE, write |-> TRUE])
  @@ (200 :> [instruction |-> "INY", cycles |-> 2, addressMode |-> "impl", read |-> FALSE, write |-> FALSE])
  @@ (201 :> [instruction |-> "CMP", cycles |-> 2, addressMode |-> "#", read |-> FALSE, write |-> FALSE])
  @@ (202 :> [instruction |-> "DEX", cycles |-> 2, addressMode |-> "impl", read |-> FALSE, write |-> FALSE])
  @@ (204 :> [instruction |-> "CPY", cycles |-> 4, addressMode |-> "abs", read |-> TRUE, write |-> FALSE])
  @@ (205 :> [instruction |-> "CMP", cycles |-> 4, addressMode |-> "abs", read |-> TRUE, write |-> FALSE])
  @@ (206 :> [instruction |-> "DEC", cycles |-> 3, addressMode |-> "abs", read |-> TRUE, write |-> TRUE])
  @@ (208 :> [instruction |-> "BNE", cycles |-> 2, addressMode |-> "rel", read |-> FALSE, write |-> FALSE])
  @@ (209 :> [instruction |-> "CMP", cycles |-> 5, addressMode |-> "ind,Y", read |-> TRUE, write |-> FALSE])
  @@ (213 :> [instruction |-> "CMP", cycles |-> 4, addressMode |-> "zpg,X", read |-> TRUE, write |-> FALSE])
  @@ (214 :> [instruction |-> "DEC", cycles |-> 6, addressMode |-> "zpg,X", read |-> TRUE, write |-> TRUE])
  @@ (216 :> [instruction |-> "CLD", cycles |-> 2, addressMode |-> "impl", read |-> FALSE, write |-> FALSE])
  @@ (217 :> [instruction |-> "CMP", cycles |-> 4, addressMode |-> "abs,Y", read |-> TRUE, write |-> FALSE])
  @@ (221 :> [instruction |-> "CMP", cycles |-> 4, addressMode |-> "abs,X", read |-> TRUE, write |-> FALSE])
  @@ (222 :> [instruction |-> "DEC", cycles |-> 7, addressMode |-> "abs,X", read |-> TRUE, write |-> TRUE])
  @@ (224 :> [instruction |-> "CPX", cycles |-> 2, addressMode |-> "#", read |-> FALSE, write |-> FALSE])
  @@ (225 :> [instruction |-> "SBC", cycles |-> 6, addressMode |-> "X,ind", read |-> TRUE, write |-> FALSE])
  @@ (228 :> [instruction |-> "CPX", cycles |-> 3, addressMode |-> "zpg", read |-> TRUE, write |-> FALSE])
  @@ (229 :> [instruction |-> "SBC", cycles |-> 3, addressMode |-> "zpg", read |-> TRUE, write |-> FALSE])
  @@ (230 :> [instruction |-> "INC", cycles |-> 5, addressMode |-> "zpg", read |-> TRUE, write |-> TRUE])
  @@ (232 :> [instruction |-> "INX", cycles |-> 2, addressMode |-> "impl", read |-> FALSE, write |-> FALSE])
  @@ (233 :> [instruction |-> "SBC", cycles |-> 2, addressMode |-> "#", read |-> FALSE, write |-> FALSE])
  @@ (234 :> [instruction |-> "NOP", cycles |-> 2, addressMode |-> "impl", read |-> FALSE, write |-> FALSE])
  @@ (236 :> [instruction |-> "CPX", cycles |-> 4, addressMode |-> "abs", read |-> TRUE, write |-> FALSE])
  @@ (237 :> [instruction |-> "SBC", cycles |-> 4, addressMode |-> "abs", read |-> TRUE, write |-> FALSE])
  @@ (238 :> [instruction |-> "INC", cycles |-> 6, addressMode |-> "abs", read |-> TRUE, write |-> TRUE])
  @@ (240 :> [instruction |-> "BEQ", cycles |-> 2, addressMode |-> "rel", read |-> FALSE, write |-> FALSE])
  @@ (241 :> [instruction |-> "SBC", cycles |-> 5, addressMode |-> "ind,Y", read |-> TRUE, write |-> FALSE])
  @@ (245 :> [instruction |-> "SBC", cycles |-> 4, addressMode |-> "zpg,X", read |-> TRUE, write |-> FALSE])
  @@ (246 :> [instruction |-> "INC", cycles |-> 6, addressMode |-> "zpg,X", read |-> TRUE, write |-> TRUE])
  @@ (248 :> [instruction |-> "SED", cycles |-> 2, addressMode |-> "impl", read |-> FALSE, write |-> FALSE])
  @@ (249 :> [instruction |-> "SBC", cycles |-> 4, addressMode |-> "abs,Y", read |-> TRUE, write |-> FALSE])
  @@ (253 :> [instruction |-> "SBC", cycles |-> 4, addressMode |-> "abs,X", read |-> TRUE, write |-> FALSE])
  @@ (254 :> [instruction |-> "INC", cycles |-> 7, addressMode |-> "abs,X", read |-> TRUE, write |-> TRUE])

\* cpu6502.opcodes6502Undocumented: the illegal NOPs and the JAMs (the
\* operation of a JAM throws 'JAM/KIL/HLT encountered!'), none of which
\* reads or writes memory.  The table also holds an ISC under 0xFC, the
\* opcode of its last NOP.
opcodes6502Undocumented ==
    [opcode \in {\h02, \h12, \h22, \h32, \h42, \h52, \h62, \h72, \h92, \hB2, \hD2, \hF2,
                 \h1A, \h3A, \h5A, \h7A, \hDA, \hFA, \h80, \h82, \h89, \hC2, \hE2,
                 \h04, \h44, \h64, \h14, \h34, \h54, \h74, \hD4, \hF4,
                 \h0C, \h1C, \h3C, \h5C, \h7C, \hDC, \hFC} |->
        [instruction |-> IF opcode % 16 = 2 /\ opcode \notin {\h82, \hC2, \hE2}
                         THEN "JAM" ELSE "NOP",
         cycles |-> IF opcode % 16 \in {2, 10, 0, 9} THEN 2
                    ELSE IF opcode \in {\h04, \h44, \h64} THEN 3 ELSE 4,
         addressMode |-> IF opcode % 16 = 10 THEN "impl"
                         ELSE IF opcode % 16 = 2 /\ opcode \notin {\h82, \hC2, \hE2} THEN "impl"
                         ELSE IF opcode % 16 \in {0, 2, 9} THEN "#"
                         ELSE IF opcode \in {\h04, \h44, \h64} THEN "zpg"
                         ELSE IF opcode % 16 = 4 THEN "zpg,X"
                         ELSE IF opcode = \h0C THEN "abs" ELSE "abs,X",
         read |-> FALSE, write |-> FALSE]]

\* cpu6502.opCodes6502 as the constructor builds it: the documented opcodes
\* keyed by opcode; the undocumented table is not added
opCodes6502 == opCodes6502Documented

\* OpCodeGenRule.getBytes
getBytes(addressMode) ==
    IF addressMode \in {"A", "impl"} THEN 1
    ELSE IF addressMode \in {"abs", "abs,X", "abs,Y", "ind"} THEN 3
    ELSE 2

\* Utils.signedWord
signedWord(unsignedword) ==
    IF unsignedword < \h8000 THEN unsignedword ELSE unsignedword - \h10000

\* cpu6502.GetMemoryOffset: [m |-> the machine after its reads, v |-> the offset]
GetMemoryOffset(m, addressMode, address) ==
    CASE addressMode = "abs" -> [m |-> m, v |-> address % \h10000]
      [] addressMode = "abs,X" -> [m |-> m, v |-> (address + m.cpu.X) % \h10000]
      [] addressMode = "abs,Y" -> [m |-> m, v |-> (address + m.cpu.Y) % \h10000]
      [] addressMode = "ind" -> [m |-> m, v |-> address % \h10000]
      [] addressMode = "X,ind" ->
           The({ The({ [m |-> msbXInd.m, v |-> msbXInd.v * 256 + lsbXInd.v] :
                       msbXInd \in {readByte(lsbXInd.m, ((address + m.cpu.X) % \h100) + 1)} }) :
                 lsbXInd \in {readByte(m, (address + m.cpu.X) % \h100)} })
      [] addressMode = "ind,Y" ->
           The({ The({ [m |-> msb_.m,
                        v |-> (msb_.v + (IF addr.v + m.cpu.Y > \hFF THEN 1 ELSE 0)) * 256
                              + ((addr.v + m.cpu.Y) % \h100)] :
                       msb_ \in {readByte(addr.m, address + 1)} }) :
                 addr \in {readByte(m, address % \h10000)} })
      [] addressMode = "rel" ->
           [m |-> m, v |-> (m.cpu.PC + signedWord(address)) % \h10000]
      [] addressMode = "zpg" -> [m |-> m, v |-> address % \h100]
      [] addressMode = "zpg,X" -> [m |-> m, v |-> (address + m.cpu.X) % \h100]
      [] addressMode = "zpg,Y" -> [m |-> m, v |-> (address + m.cpu.Y) % \h100]
      [] OTHER -> [m |-> Throw(m, "Error: Invalid addressing mode"), v |-> 0]

\* cpu6502.ReadMemory
ReadMemory(m, addressMode, address) ==
    The({ IF addressMode = "ind" THEN readWord(offset.m, offset.v)
          ELSE IF addressMode = "rel"
          THEN [m |-> offset.m, v |-> offset.m.cpu.PC + address]
          ELSE readByte(offset.m, offset.v) :
          offset \in {GetMemoryOffset(m, addressMode, address)} })

\* cpu6502.WriteMemory
WriteMemory(m, addressMode, address, value) ==
    The({ IF addressMode = "rel" THEN Throw(offset.m, "Invalid address mode: rel")
          ELSE writeByte(offset.m, offset.v, value) :
          offset \in {GetMemoryOffset(m, addressMode, address)} })

\* a rule's operation returning nothing
Void(m) == [m |-> m, v |-> 0]

\* OpCodeGenRule.operation of the rule, applied to reg: [m |-> the machine
\* after, v |-> the value returned (rules with write: true all return one)]
operation(m, rule, reg) ==
    LET i == rule.instruction
        inA == rule.addressMode = "A"
        zn(r) == setzn(r.m, r.v)
        shift(right, rot) ==
            IF inA THEN Void(Assign(zn(rotate(m, m.cpu.A, right, rot)), "A"))
            ELSE zn(rotate(m, reg, right, rot))
        plp(r) == Void(SetRegister(r.m, "P", BitAnd(r.v, \hCF)))
    IN  CASE i = "BRK" -> Void(brk(m))
          [] i = "RTI" -> Void(rti(m))
          [] i = "RTS" -> Void(rts(m))
          [] i = "JSR" -> Void(jsr(m, reg))
          [] i = "JMP" -> Void(jmp(m, reg, rule.addressMode = "abs"))
          [] i = "PHP" -> Void(push(m, BitOr(BitOr(m.cpu.P, 32), 16)))
          [] i = "PLP" -> plp(pop(m))
          [] i = "PHA" -> Void(push(m, m.cpu.A))
          [] i = "PLA" -> Void(Assign(zn(pop(m)), "A"))
          [] i = "ORA" -> Void(Assign(setzn(m, BitOr(m.cpu.A, reg)), "A"))
          [] i = "AND" -> Void(Assign(setzn(m, BitAnd(m.cpu.A, reg)), "A"))
          [] i = "EOR" -> Void(Assign(setzn(m, BitXor(m.cpu.A, reg)), "A"))
          [] i = "ADC" -> Void(adc(m, reg))
          [] i = "SBC" -> Void(sbc(m, reg))
          [] i = "BIT" -> Void(bit(m, reg, rule.addressMode))
          [] i = "CMP" -> Void(compare(m, m.cpu.A, reg))
          [] i = "CPX" -> Void(compare(m, m.cpu.X, reg))
          [] i = "CPY" -> Void(compare(m, m.cpu.Y, reg))
          [] i = "ASL" -> shift(FALSE, FALSE)
          [] i = "ROL" -> shift(FALSE, TRUE)
          [] i = "LSR" -> shift(TRUE, FALSE)
          [] i = "ROR" -> shift(TRUE, TRUE)
          [] i = "INC" -> setzn(m, BitAnd(reg + 1, \hFF))
          [] i = "DEC" -> setzn(m, BitAnd(reg - 1, \hFF))
          [] i = "INX" -> Void(Assign(setzn(m, BitAnd(m.cpu.X + 1, \hFF)), "X"))
          [] i = "INY" -> Void(Assign(setzn(m, BitAnd(m.cpu.Y + 1, \hFF)), "Y"))
          [] i = "DEX" -> Void(Assign(setzn(m, BitAnd(m.cpu.X - 1, \hFF)), "X"))
          [] i = "DEY" -> Void(Assign(setzn(m, BitAnd(m.cpu.Y - 1, \hFF)), "Y"))
          [] i = "LDA" -> Void(Assign(setzn(m, reg), "A"))
          [] i = "LDX" -> Void(Assign(setzn(m, reg), "X"))
          [] i = "LDY" -> Void(Assign(setzn(m, reg), "Y"))
          [] i = "STA" -> [m |-> m, v |-> m.cpu.A]
          [] i = "STX" -> [m |-> m, v |-> m.cpu.X]
          [] i = "STY" -> [m |-> m, v |-> m.cpu.Y]
          [] i = "TAX" -> Void(Assign(setzn(m, m.cpu.A), "X"))
          [] i = "TAY" -> Void(Assign(setzn(m, m.cpu.A), "Y"))
          [] i = "TXA" -> Void(Assign(setzn(m, m.cpu.X), "A"))
          [] i = "TYA" -> Void(Assign(setzn(m, m.cpu.Y), "A"))
          [] i = "TSX" -> Void(Assign(setzn(m, m.cpu.SP), "X"))
          [] i = "TXS" -> Void(SetRegister(m, "SP", m.cpu.X))
          [] i = "CLC" -> Void(setFlag(m, Carry, FALSE))
          [] i = "SEC" -> Void(setFlag(m, Carry, TRUE))
          [] i = "CLI" -> Void(setFlag(m, Interrupt, FALSE))
          [] i = "SEI" -> Void(setFlag(m, Interrupt, TRUE))
          [] i = "CLD" -> Void(setFlag(m, Decimal, FALSE))
          [] i = "SED" -> Void(setFlag(m, Decimal, TRUE))
          [] i = "CLV" -> Void(setFlag(m, Overflow, FALSE))
          [] i = "BPL" -> Void(branch(m, ~isSet(m, Negative), reg))
          [] i = "BMI" -> Void(branch(m, isSet(m, Negative), reg))
          [] i = "BVC" -> Void(branch(m, ~isSet(m, Overflow), reg))
          [] i = "BVS" -> Void(branch(m, isSet(m, Overflow), reg))
          [] i = "BCC" -> Void(branch(m, ~isSet(m, Carry), reg))
          [] i = "BCS" -> Void(branch(m, isSet(m, Carry), reg))
          [] i = "BNE" -> Void(branch(m, ~isSet(m, Zero), reg))
          [] i = "BEQ" -> Void(branch(m, isSet(m, Zero), reg))
          [] OTHER -> Void(m)

\* cpu6502.executeInstruction
executeInstruction(m, rule) ==
    The({ The({ The({ IF rule.write
                      THEN WriteMemory(result.m, rule.addressMode, operand.v, result.v)
                      ELSE result.m :
                      result \in {operation(reg.m, rule, reg.v)} }) :
                reg \in { IF rule.read
                          THEN ReadMemory(operand.m, rule.addressMode, operand.v)
                          ELSE operand } }) :
          operand \in
              { The({ [m |-> SetRegister(bytes.m, "PC",
                                         (m.cpu.PC + getBytes(rule.addressMode) - 1) % \h10000),
                       v |-> bytes.v] :
                      bytes \in { IF getBytes(rule.addressMode) = 2
                                  THEN readByte(m, m.cpu.PC)
                                  ELSE IF getBytes(rule.addressMode) = 3
                                  THEN readWord(m, m.cpu.PC)
                                  ELSE [m |-> m, v |-> 0] } }) } })

\* serviceIrq without the test of the I flag
serviceIrq_Unmasked(m) ==
    IF m.cpu.requiresIrq
    THEN SetRegister(irq(m), "requiresIrq", FALSE)
    ELSE m

\* cpu6502.cycle at an instruction boundary, first step: a latched IRQ is
\* serviced when the I flag is clear
serviceIrq(m) ==
    IF ~isSet(m, Interrupt) /\ m.cpu.requiresIrq
    THEN SetRegister(irq(m), "requiresIrq", FALSE)
    ELSE m

\* cpu6502.cycle at an instruction boundary, second step: a latched NMI is
\* serviced
serviceNmi(m) ==
    IF m.err = "none" /\ m.cpu.requiresNmi
    THEN SetRegister(nmi(m), "requiresNmi", FALSE)
    ELSE m

\* the trap that records the hit and never raises the error
checkTrap_Silent(m) ==
    IF m.err = "none" /\ m.cpu.trapPc # 0 /\ m.cpu.PC = m.cpu.lastPc
    THEN [m EXCEPT !.cpu.trapHit = TRUE]
    ELSE m

\* cpu6502.cycle at an instruction boundary, third step: the trap of the
\* functional tests (a PC that did not move since the last instruction).
\* The error is `Actual trap program counter of ${this.Registers.PC} does
\* not match expected trap program counter of ${this.trapPc}.`; its two
\* numbers are entries of the call log.
checkTrap(m) ==
    IF m.err = "none" /\ m.cpu.trapPc # 0 /\ m.cpu.PC = m.cpu.lastPc
    THEN IF m.cpu.trapPc = m.cpu.PC THEN [m EXCEPT !.cpu.trapHit = TRUE]
         ELSE Throw(Log(Log([m EXCEPT !.cpu.trapHit = TRUE],
                            <<"Actual trap program counter", m.cpu.PC>>),
                        <<"expected trap program counter", m.cpu.trapPc>>),
                    "Actual trap program counter does not match")
    ELSE m

\* the fatal error of cycle(): `Invalid instruction: ${instruction} found at
\* offset: ${this.Registers.PC}.`  The two numbers of the report are entries
\* of the call log.
InvalidInstruction(m, instruction) ==
    Throw(Log(Log([m EXCEPT !.cpu.currentInstruction = -1],
                  <<"Invalid instruction", instruction>>),
              <<"found at offset", m.cpu.PC>>),
          "Invalid instruction")

\* cpu6502.cycle at an instruction boundary, last step: fetch, decode, execute
fetchExecute(m) ==
    The({ IF instruction.m.err # "none" THEN instruction.m
          ELSE IF instruction.v \notin DOMAIN opCodes6502
          THEN InvalidInstruction(instruction.m, instruction.v)
          ELSE The({ executeInstruction(
                         [instruction.m EXCEPT !.cpu.currentInstruction = instruction.v,
                                               !.cpu.Cycles = rule.cycles],
                         rule) :
                     rule \in {opCodes6502[instruction.v]} }) :
          instruction \in {FetchInstruction(SetRegister(m, "lastPc", m.cpu.PC))} })

\* cycle that counts the call that executes the instruction twice
cycle_CountsTwice(m) ==
    The({ Then(n, [n EXCEPT !.cpu.Cycles = @ - (IF m.cpu.Cycles = 0 THEN 2 ELSE 1)]) :
          n \in { IF m.cpu.Cycles = 0
                  THEN fetchExecute(checkTrap(serviceNmi(serviceIrq(
                           [m EXCEPT !.cpu.c = @ + 1]))))
                  ELSE [m EXCEPT !.cpu.c = @ + 1] } })

\* cpu6502.cycle
cycle(m) ==
    The({ Then(n, [n EXCEPT !.cpu.Cycles = @ - 1]) :
          n \in { IF m.cpu.Cycles = 0
                  THEN fetchExecute(checkTrap(serviceNmi(serviceIrq(
                           [m EXCEPT !.cpu.c = @ + 1]))))
                  ELSE [m EXCEPT !.cpu.c = @ + 1] } })

\* cpu6502 as its field initialisers and constructor leave it
NewCpu ==
    [PC |-> 0, SP |-> 0, A |-> 0, X |-> 0, Y |-> 0, P |-> 0, Cycles |-> 0,
     lastPc |-> 0, c |-> 0, currentInstruction |-> -1, trapHit |-> FALSE,
     trapPc |-> 0, requiresIrq |-> FALSE, requiresNmi |-> FALSE]

\* an argument left out of a call: null for pc, undefined for trapPc
Null == -1

\* cpu6502.reset(pc, trapPc); "if (pc)" and "if (trapPc)" are false for
\* null, undefined and 0
reset(m, pc, trapPc) ==
    LET z == [m EXCEPT !.cpu.A = 0, !.cpu.X = 0, !.cpu.Y = 0, !.cpu.SP = 0]
        trap(p) == IF trapPc \notin {Null, 0}
                   THEN Then(p, [p EXCEPT !.cpu.trapPc = trapPc, !.cpu.trapHit = FALSE])
                   ELSE p
    IN  SetRegister(trap(IF pc \notin {Null, 0} THEN [z EXCEPT !.cpu.PC = pc]
                         ELSE Assign(readWord(z, \hFFFC), "PC")),
                    "Cycles", 0)

-----------------------------------------------------------------------------
(* Vic6560: the raster counters, the raster registers CR3 / CR4 they      *)
(* drive, the fetches of a cycle and the cells of the frame buffer it      *)
(* writes.  The colours stored in the cells are not modelled: a write is   *)
(* the log entry <<"_data32", index>>, a fetch the entries                 *)
(* <<"MapMemory", offset>>, <<"Memory.readByte", address>>.                *)

\* the timing of NTSC, the region the Vic20 constructor selects
CyclesPerLine == 65
HorizontalBlankCycles == 15
BlankLeftCycles == 2
LinesPerFrame == 261
VerticalBlankRows == 7

\* Vic6560.constructor: the timing of the video region
Timing(videoRegion) ==
    IF videoRegion = "pal"
    THEN [CyclesPerLine |-> 71, HorizontalBlankCycles |-> 15, BlankLeftCycles |-> 8,
          LinesPerFrame |-> 312, VerticalBlankRows |-> 27]
    ELSE [CyclesPerLine |-> CyclesPerLine, HorizontalBlankCycles |-> HorizontalBlankCycles,
          BlankLeftCycles |-> BlankLeftCycles, LinesPerFrame |-> LinesPerFrame,
          VerticalBlankRows |-> VerticalBlankRows]

\* Vic6560.constructor: ScreenWidth, ScreenHeight
ScreenWidth(chip) ==
    (Timing(chip.videoRegion).CyclesPerLine
     - Timing(chip.videoRegion).HorizontalBlankCycles) * 4
ScreenHeight(chip) ==
    Timing(chip.videoRegion).LinesPerFrame - Timing(chip.videoRegion).VerticalBlankRows

\* VicControlRegisters.DefaultRegisterValuesPal
DefaultRegisterValuesPal(videoRegion) ==
    IF videoRegion = "pal"
    THEN <<12, 38, 150, 174, 73, 240, 0, 0, 255, 255, 0, 0, 0, 0, 0, 27>>
    ELSE <<5, 25, 150, 174, 27, 240, 87, 234, 0, 0, 0, 0, 0, 0, 0, 27>>

\* new Vic6560(videoRegion, ..) and its VicControlRegisters
NewVic6560(videoRegion) ==
    [cycle |-> 0, rowPixel |-> 0, videoRegion |-> videoRegion,
     ControlRegisters |-> [i \in 0..15 |-> DefaultRegisterValuesPal(videoRegion)[i + 1]]]

\* Vic6560 and its VicControlRegisters as the Vic20 constructor leaves them
NewVic == NewVic6560("ntsc")

\* the writes ws = << <<register, value>>, .. >> in order
vic_writes(chip, ws) ==
    [chip EXCEPT !.ControlRegisters =
        [i \in 0..15 |->
            IF \E k \in 1..Len(ws) : ws[k][1] = i
            THEN ws[The({ k \in 1..Len(ws) :
                            ws[k][1] = i /\ \A j \in (k + 1)..Len(ws) : ws[j][1] # i })][2]
            ELSE @[i]]]

\* VicControlRegisters.write, the "switch": the fields decoded from the
\* registers.  Every field is assigned at each write of a register it is
\* computed from, so it is a function of the registers.
decode(chip) ==
    The({ [ScreenOriginX |-> ExtractBits(cr[0], 0, 6),
           ScreenOriginY |-> ExtractBits(cr[1], 0, 7),
           NumberOfVideoColumns |-> ExtractBits(cr[2], 0, 6),
           NumberOfVideoRows |-> ExtractBits(cr[3], 1, 6),
           DoubleCharacterSize |-> ExtractBits(cr[3], 0, 0),
           ScreenMemoryLocation |->
               ExtractBits(cr[5], 4, 7) * 1024 + ExtractBits(cr[2], 7, 7) * 512,
           CharacterMemoryLocation |-> ExtractBits(cr[5], 0, 3) * 1024,
           ColorBase |-> \h1400 + ExtractBits(cr[2], 7, 7) * 512] :
          cr \in {chip.ControlRegisters} })

\* "~~(a / b)" for b > 0: the quotient rounded towards zero
Trunc(a, b) == IF a >= 0 THEN a \div b ELSE -((-a) \div b)

\* "a % b" of JavaScript for b > 0: the remainder has the sign of a
Rem(a, b) == a - b * Trunc(a, b)

\* Vic6560.Cycle: this._rowCycle, this._line, this._rasterLine
rowCycle(chip) == chip.cycle % Timing(chip.videoRegion).CyclesPerLine
line(chip) == chip.cycle \div Timing(chip.videoRegion).CyclesPerLine
rasterLine(chip) == line(chip) - Timing(chip.videoRegion).VerticalBlankRows

\* isRowBlanking that blanks the left of every line: the test of the left
\* blank cycles is made on the cycle within the line
isRowBlanking_LeftOfEveryLine(chip) ==
    ~(rowCycle(chip) > Timing(chip.videoRegion).BlankLeftCycles
      /\ rowCycle(chip) < Timing(chip.videoRegion).CyclesPerLine
                          - Timing(chip.videoRegion).HorizontalBlankCycles)

\* Vic6560.isRowBlanking
isRowBlanking(chip) ==
    ~(chip.cycle > Timing(chip.videoRegion).BlankLeftCycles
      /\ rowCycle(chip) < Timing(chip.videoRegion).CyclesPerLine
                          - Timing(chip.videoRegion).HorizontalBlankCycles)

\* Vic6560.isLineBlanking
isLineBlanking(chip) == rasterLine(chip) < 0

\* Vic6560.getColumn
getColumn(chip) ==
    Trunc(100 + rowCycle(chip) - decode(chip).ScreenOriginX
          + Timing(chip.videoRegion).BlankLeftCycles, 2) - 50

\* the height of a character: 16 scan lines if DoubleCharacterSize, else 8
characterSize(chip) == IF decode(chip).DoubleCharacterSize # 0 THEN 16 ELSE 8

\* the scan line counted from the first line of the text area
textLine(chip) ==
    rasterLine(chip) - (decode(chip).ScreenOriginY * 2
                        - Timing(chip.videoRegion).VerticalBlankRows)

\* Vic6560.getRow
getRow(chip) ==
    Trunc(800 + textLine(chip), characterSize(chip)) - 800 \div characterSize(chip)

\* Vic6560.isTextArea
isTextArea(chip) ==
    /\ getColumn(chip) >= 0 /\ getColumn(chip) < decode(chip).NumberOfVideoColumns
    /\ getRow(chip) >= 0 /\ getRow(chip) < decode(chip).NumberOfVideoRows

\* VicControlRegisters.MapMemory
MapMemory(vic6560Offset) ==
    The({ (o % \h2000) + (IF (o \div \h2000) % 2 = 1 THEN 0 ELSE \h8000) :
          o \in {Rem(vic6560Offset, \h4FFF)} })

\* "this.Memory.readByte(this.vicControlRegisters.MapMemory(offset))"
fetch(m, vic6560Offset) ==
    The({ [m |-> Log(Log(r.m, <<"MapMemory", vic6560Offset>>),
                     <<"Memory.readByte", MapMemory(vic6560Offset)>>),
           v |-> r.v] :
          r \in {readByte(m, MapMemory(vic6560Offset))} })

\* Vic6560.Cycle, the text area: the character pointer is read from screen
\* memory, then the character data and the colour data
fetches(m) ==
    The({ The({ fetch(fetch(characterPointer.m,
                            characterPointer.v * characterSize(m.vic)
                            + decode(m.vic).CharacterMemoryLocation
                            + Rem(textLine(m.vic), characterSize(m.vic))).m,
                      decode(m.vic).ColorBase + charIndex).m :
                characterPointer \in
                    {fetch(m, decode(m.vic).ScreenMemoryLocation + charIndex)} }) :
          charIndex \in {getRow(m.vic) * decode(m.vic).NumberOfVideoColumns
                         + getColumn(m.vic)} })

\* "this._data32[index] = ..": a Uint32Array drops a write outside its
\* length (the log keeps the index of a write that was dropped)
data32(m, index) ==
    IF index >= 0 /\ index < ScreenWidth(m.vic) * ScreenHeight(m.vic)
    THEN Log(m, <<"_data32", index>>) ELSE Log(m, <<"_data32 dropped", index>>)

\* Vic6560.Cycle, "Each cycle writes 4 pixels": nothing in blanking, else the
\* fetches of the text area and four writes at _rowPixel++
pixels(m) ==
    IF isRowBlanking(m.vic) \/ isLineBlanking(m.vic) THEN m
    ELSE The({ data32(data32(data32(data32(n, at), at + 1), at + 2), at + 3) :
               n \in {IF isTextArea(m.vic) THEN fetches(m) ELSE m},
               at \in {rasterLine(m.vic) * ScreenWidth(m.vic) + m.vic.rowPixel} })

\* raster without "this._rowPixel = 0" at the end of a line: rowPixel is
\* reset by drawFrame only
raster_KeepsRowPixel(chip) ==
    The({ IF n.cycle = Timing(chip.videoRegion).CyclesPerLine
                       * Timing(chip.videoRegion).LinesPerFrame
          THEN [n EXCEPT !.cycle = 0, !.rowPixel = 0]
          ELSE n :
          n \in { [chip EXCEPT !.cycle = @ + 1,
                               !.rowPixel = IF isRowBlanking(chip) \/ isLineBlanking(chip)
                                            THEN @ ELSE @ + 4] } })

\* Vic6560.Cycle, after the raster registers: the four pixels of a visible
\* cycle (counted in rowPixel), the cycle counter, and drawFrame's wrap
raster(chip) ==
    The({ IF n.cycle = Timing(chip.videoRegion).CyclesPerLine
                       * Timing(chip.videoRegion).LinesPerFrame
          THEN [n EXCEPT !.cycle = 0, !.rowPixel = 0]
          ELSE IF n.cycle % Timing(chip.videoRegion).CyclesPerLine = 0
          THEN [n EXCEPT !.rowPixel = 0]
          ELSE n :
          n \in { [chip EXCEPT !.cycle = @ + 1,
                               !.rowPixel = IF isRowBlanking(chip) \/ isLineBlanking(chip)
                                            THEN @ ELSE @ + 4] } })

\* Vic6560.Cycle that writes the raster line counted from the first visible
\* line into CR3 / CR4
Cycle_FromVisibleLine(m) ==
    Then(m, The({ Log(Then(n, [n EXCEPT !.vic = raster(@)]), <<"Vic6560.Cycle", 0>>) :
                  n \in {pixels([m EXCEPT !.vic =
                            vic_write(vic_write(@, 4, rasterLine(@) \div 2),
                                      3, BitOr(BitAnd(vic_read(@, 3), \h7F),
                                               (rasterLine(@) % 2) * 128))])} }))

\* Vic6560.Cycle
Cycle(m) ==
    Then(m, The({ Log(Then(n, [n EXCEPT !.vic = raster(@)]), <<"Vic6560.Cycle", 0>>) :
                  n \in {pixels([m EXCEPT !.vic =
                            vic_write(vic_write(@, 4, line(@) \div 2),
                                      3, BitOr(BitAnd(vic_read(@, 3), \h7F),
                                               (line(@) % 2) * 128))])} }))

-----------------------------------------------------------------------------
(* The machine (vic20.ts).                                                 *)

\* Vic20.cycle, first statement: lastNmi takes the line of VIA1 (reading the
\* line is the irq getter, which changes the chip)
sampleLastNmi(m) ==
    The({ [m EXCEPT !.via1 = s.via, !.lastNmi = s.v] : s \in {via_irq(m.via1)} })

\* requestNmi without the test of lastNmi: a line that is up requests an NMI
\* whatever the sample before was
requestNmi_EveryLevel(m) ==
    The({ IF s.v /\ ~m.cpu.requiresNmi
          THEN Log([m EXCEPT !.via1 = s.via, !.cpu.requiresNmi = TRUE],
                   <<"requiresNmi", 1>>)
          ELSE [m EXCEPT !.via1 = s.via] :
          s \in {via_irq(m.via1)} })

\* Vic20.cycle, the first "if": a line of VIA1 that is up now and was down
\* at the sample before latches requiresNmi
requestNmi(m) ==
    The({ IF s.v /\ ~m.cpu.requiresNmi /\ m.lastNmi = FALSE
          THEN Log([m EXCEPT !.via1 = s.via, !.cpu.requiresNmi = TRUE],
                   <<"requiresNmi", 1>>)
          ELSE [m EXCEPT !.via1 = s.via] :
          s \in {via_irq(m.via1)} })

\* Vic20.cycle, the second "if": the line of VIA2 latches requiresIrq
requestIrq(m) ==
    The({ IF s.v /\ ~m.cpu.requiresIrq
          THEN Log([m EXCEPT !.via2 = s.via, !.cpu.requiresIrq = TRUE],
                   <<"requiresIrq", 1>>)
          ELSE [m EXCEPT !.via2 = s.via] :
          s \in {via_irq(m.via2)} })

\* cycleUps with the two calls exchanged: VIA2 first
cycleUps_Via2First(m) ==
    Log([Log([m EXCEPT !.via2 = cycleUp(@)], <<"via2.cycleUp", 0>>)
             EXCEPT !.via1 = cycleUp(@)], <<"via1.cycleUp", 0>>)

\* both chips see the rising clock edge, VIA1 first
cycleUps(m) ==
    Log([Log([m EXCEPT !.via1 = cycleUp(@)], <<"via1.cycleUp", 0>>)
             EXCEPT !.via2 = cycleUp(@)], <<"via2.cycleUp", 0>>)

\* both chips see the falling clock edge, VIA1 first
cycleDowns(m) ==
    Then(m, Log([Log([m EXCEPT !.via1 = cycleDown(@)], <<"via1.cycleDown", 0>>)
                     EXCEPT !.via2 = cycleDown(@)], <<"via2.cycleDown", 0>>))

\* Vic20.cycle, up to the call of Cpu.cycle
Vic20_cycle_up(m) == requestIrq(requestNmi(cycleUps(sampleLastNmi(m))))

\* Vic20.cycle: one tick of the whole machine
Vic20_cycle(m) ==
    The({ The({ cycleDowns(Cycle(c)) : c \in { cycle(Log(u, <<"Cpu.cycle", 0>>)) } }) :
          u \in { Vic20_cycle_up(m) } })

-----------------------------------------------------------------------------
(* The frame loop of the machine (vic20.ts) and the timers of the window.  *)
(* A timer is its id; every timer set by the machine calls frameRepeat.    *)
(* The time a timer waits (frameDelay, and the speed bookkeeping of        *)
(* frameRepeat that adjusts it) is not modelled: a pending timer may fire   *)
(* whenever no other code runs.                                            *)

\* new Vic20(canvas): not stopped, no timer, debug off; debugHandler is the
\* address at which the handler of the application calls stop() (Null: no
\* handler is installed); frame is the index i of the frame() call that is
\* running (Null: none is)
NewHost ==
    [break |-> FALSE, debug |-> FALSE, debugHandler |-> Null, timeoutId |-> 0,
     timers |-> {}, ids |-> 0, frame |-> Null, roms |-> Null]

\* window.setTimeout(() => this.frameRepeat(), ..): a new pending timer,
\* whose id is the value of the call (h.ids of the result)
setTimeout(h) == [h EXCEPT !.ids = @ + 1, !.timers = @ \cup {h.ids + 1}]

\* window.clearTimeout(id), window.clearInterval(id)
clearTimeout(h, id) == [h EXCEPT !.timers = @ \ {id}]

\* Vic20.stop
stop(h) == clearTimeout([h EXCEPT !.break = TRUE], h.timeoutId)

\* Vic20.start
start(h) ==
    The({ [s EXCEPT !.timeoutId = s.ids] : s \in {setTimeout([h EXCEPT !.break = FALSE])} })

\* Vic20.reset with a valid ROM set, the timers: "clearInterval(this.timeoutId)"
\* first, "this.timeoutId = window.setTimeout(..)" last
Vic20_reset(h) ==
    The({ [s EXCEPT !.timeoutId = s.ids] : s \in {setTimeout(clearTimeout(h, h.timeoutId))} })

\* Vic20.cycle, the last "if": the debug handler of the application is
\* called after the tick; it stops the machine at its breakpoint
debugHandler(h, m) ==
    IF m.err = "none" /\ h.debug /\ h.debugHandler # Null /\ m.cpu.PC = h.debugHandler
    THEN stop(h) ELSE h

\* frameRepeat without the test of break: the next frame is always scheduled
frameRepeat_Always(h) ==
    The({ [s EXCEPT !.timeoutId = s.ids, !.frame = Null] : s \in {setTimeout(h)} })

\* Vic20.frameRepeat, after frame(): the next frame is scheduled unless the
\* machine is stopped
frameRepeat(h) ==
    IF ~h.break
    THEN The({ [s EXCEPT !.timeoutId = s.ids, !.frame = Null] : s \in {setTimeout(h)} })
    ELSE [h EXCEPT !.frame = Null]

-----------------------------------------------------------------------------
(* The assembler (cpu6502d.Assemble, AssembleLine) and the operand parser  *)
(* (AddressMode).  A text is the sequence of its characters.               *)

Digits == {"0", "1", "2", "3", "4", "5", "6", "7", "8", "9"}
Lower == <<"a", "b", "c", "d", "e", "f", "g", "h", "i", "j", "k", "l", "m", "n", "o", "p", "q", "r", "s", "t", "u", "v", "w", "x", "y", "z">>
Upper == <<"A", "B", "C", "D", "E", "F", "G", "H", "I", "J", "K", "L", "M", "N", "O", "P", "Q", "R", "S", "T", "U", "V", "W", "X", "Y", "Z">>
Letters == {Lower[i] : i \in 1..26} \cup {Upper[i] : i \in 1..26}
HexDigits == Digits \cup {"A", "B", "C", "D", "E", "F", "a", "b", "c", "d", "e", "f"}

\* the text of each name of an instruction in the op code table
Spelling ==
    "ADC" :> <<"A", "D", "C">> @@ "AND" :> <<"A", "N", "D">> @@ "ASL" :> <<"A", "S", "L">>
    @@ "BCC" :> <<"B", "C", "C">> @@ "BCS" :> <<"B", "C", "S">> @@ "BEQ" :> <<"B", "E", "Q">>
    @@ "BIT" :> <<"B", "I", "T">> @@ "BMI" :> <<"B", "M", "I">> @@ "BNE" :> <<"B", "N", "E">>
    @@ "BPL" :> <<"B", "P", "L">> @@ "BRK" :> <<"B", "R", "K">> @@ "BVC" :> <<"B", "V", "C">>
    @@ "BVS" :> <<"B", "V", "S">> @@ "CLC" :> <<"C", "L", "C">> @@ "CLD" :> <<"C", "L", "D">>
    @@ "CLI" :> <<"C", "L", "I">> @@ "CLV" :> <<"C", "L", "V">> @@ "CMP" :> <<"C", "M", "P">>
    @@ "CPX" :> <<"C", "P", "X">> @@ "CPY" :> <<"C", "P", "Y">> @@ "DEC" :> <<"D", "E", "C">>
    @@ "DEX" :> <<"D", "E", "X">> @@ "DEY" :> <<"D", "E", "Y">> @@ "EOR" :> <<"E", "O", "R">>
    @@ "INC" :> <<"I", "N", "C">> @@ "INX" :> <<"I", "N", "X">> @@ "INY" :> <<"I", "N", "Y">>
    @@ "JMP" :> <<"J", "M", "P">> @@ "JSR" :> <<"J", "S", "R">> @@ "LDA" :> <<"L", "D", "A">>
    @@ "LDX" :> <<"L", "D", "X">> @@ "LDY" :> <<"L", "D", "Y">> @@ "LSR" :> <<"L", "S", "R">>
    @@ "NOP" :> <<"N", "O", "P">> @@ "ORA" :> <<"O", "R", "A">> @@ "PHA" :> <<"P", "H", "A">>
    @@ "PHP" :> <<"P", "H", "P">> @@ "PLA" :> <<"P", "L", "A">> @@ "PLP" :> <<"P", "L", "P">>
    @@ "ROL" :> <<"R", "O", "L">> @@ "ROR" :> <<"R", "O", "R">> @@ "RTI" :> <<"R", "T", "I">>
    @@ "RTS" :> <<"R", "T", "S">> @@ "SBC" :> <<"S", "B", "C">> @@ "SEC" :> <<"S", "E", "C">>
    @@ "SED" :> <<"S", "E", "D">> @@ "SEI" :> <<"S", "E", "I">> @@ "STA" :> <<"S", "T", "A">>
    @@ "STX" :> <<"S", "T", "X">> @@ "STY" :> <<"S", "T", "Y">> @@ "TAX" :> <<"T", "A", "X">>
    @@ "TAY" :> <<"T", "A", "Y">> @@ "TSX" :> <<"T", "S", "X">> @@ "TXA" :> <<"T", "X", "A">>
    @@ "TXS" :> <<"T", "X", "S">> @@ "TYA" :> <<"T", "Y", "A">>

\* String.prototype.toUpperCase
toUpperCase(text) ==
    [i \in 1..Len(text) |->
       IF \E k \in 1..26 : Lower[k] = text[i]
       THEN Upper[CHOOSE k \in 1..26 : Lower[k] = text[i]] ELSE text[i]]

RECURSIVE trim(_)
\* String.prototype.trim
trim(text) ==
    IF text # <<>> /\ Head(text) = " " THEN trim(Tail(text))
    ELSE IF text # <<>> /\ text[Len(text)] = " " THEN trim(SubSeq(text, 1, Len(text) - 1))
    ELSE text

\* the value of a digit in base 16
digit(c) ==
    IF c \in Digits
    THEN CHOOSE d \in 0..9 : <<"0", "1", "2", "3", "4", "5", "6", "7", "8", "9">>[d + 1] = c
    ELSE 9 + (CHOOSE k \in 1..6 : Upper[k] = c \/ Lower[k] = c)

RECURSIVE parseInt(_, _)
\* parseInt(text, radix) of a text of digits of that radix
parseInt(text, radix) ==
    IF text = <<>> THEN 0
    ELSE parseInt(SubSeq(text, 1, Len(text) - 1), radix) * radix + digit(text[Len(text)])

\* AddressMode.decimal, hexByte, hexWord and label: the patterns a value matches
matchesValue(kind, text) ==
    CASE kind = "decimal" -> text # <<>> /\ \A i \in 1..Len(text) : text[i] \in Digits
      [] kind = "hexByte" ->
           Len(text) = 3 /\ text[1] = "$" /\ \A i \in 2..3 : text[i] \in HexDigits
      [] kind = "hexWord" ->
           Len(text) = 5 /\ text[1] = "$" /\ \A i \in 2..5 : text[i] \in HexDigits
      [] kind = "label" ->
           /\ text # <<>> /\ text[1] \in Letters
           /\ \A i \in 2..Len(text) : text[i] \in Letters \cup Digits \cup {"_"}

\* AddressMode.addressModes, in the order of the array: the pattern of a
\* rule is ^ before (?<value> one of values) after $, or ^ before $ without
\* a group when values is empty
addressModes ==
    << [mode |-> "A", bytes |-> 2, before |-> <<"A">>, values |-> {}, after |-> <<>>],
       [mode |-> "#", bytes |-> 2, before |-> <<"#">>, values |-> {"decimal", "hexByte"},
        after |-> <<>>],
       [mode |-> "zpg", bytes |-> 2, before |-> <<>>, values |-> {"decimal", "hexByte"},
        after |-> <<>>],
       [mode |-> "zpg,X", bytes |-> 2, before |-> <<>>, values |-> {"decimal", "hexByte"},
        after |-> <<",", "X">>],
       [mode |-> "zpg,Y", bytes |-> 2, before |-> <<>>, values |-> {"decimal", "hexByte"},
        after |-> <<",", "Y">>],
       [mode |-> "rel", bytes |-> 2, before |-> <<>>,
        values |-> {"decimal", "hexByte", "label"}, after |-> <<>>],
       [mode |-> "abs", bytes |-> 3, before |-> <<>>, values |-> {"decimal", "hexWord"},
        after |-> <<>>],
       [mode |-> "abs,X", bytes |-> 3, before |-> <<>>, values |-> {"decimal", "hexWord"},
        after |-> <<",", "X">>],
       [mode |-> "abs,Y", bytes |-> 3, before |-> <<>>, values |-> {"decimal", "hexWord"},
        after |-> <<",", "Y">>],
       [mode |-> "ind", bytes |-> 3, before |-> <<"(">>, values |-> {"decimal", "hexWord"},
        after |-> <<")">>],
       [mode |-> "X,ind", bytes |-> 2, before |-> <<"(">>, values |-> {"decimal", "hexWord"},
        after |-> <<",", "X", ")">>],
       [mode |-> "ind,Y", bytes |-> 2, before |-> <<"(">>, values |-> {"decimal", "hexWord"},
        after |-> <<")", ",", "Y">>],
       [mode |-> "impl", bytes |-> 1, before |-> <<>>, values |-> {}, after |-> <<>>] >>

\* the text of the group "value" if the operand is before, value, after
valueOf(rule, operand) ==
    SubSeq(operand, Len(rule.before) + 1, Len(operand) - Len(rule.after))

\* rule.pattern.test(operand)
test(rule, operand) ==
    IF rule.values = {} THEN operand = rule.before
    ELSE /\ Len(operand) >= Len(rule.before) + Len(rule.after)
         /\ SubSeq(operand, 1, Len(rule.before)) = rule.before
         /\ SubSeq(operand, Len(operand) - Len(rule.after) + 1, Len(operand)) = rule.after
         /\ \E kind \in rule.values : matchesValue(kind, valueOf(rule, operand))

\* AddressMode.ParseNumber(input, labels, pc): [v |-> the number, err |-> the
\* exception]; a text that is not a number is a label, whose value is taken
\* relative to pc
ParseNumber(input, labels, pc) ==
    IF Head(input) = "$" THEN [v |-> parseInt(Tail(input), 16), err |-> "none"]
    ELSE IF Head(input) \in Digits THEN [v |-> parseInt(input, 10), err |-> "none"]
    ELSE IF input \notin DOMAIN labels THEN [v |-> Null, err |-> "Label not found"]
    ELSE [v |-> labels[input] - pc, err |-> "none"]

\* AddressMode.Parse(operand, labels, pc): the first rule whose pattern the
\* operand matches, and the value of its group (Null without a group)
Parse(operand, labels, pc) ==
    LET text == trim(toUpperCase(operand))
        found == {i \in 1..Len(addressModes) : test(addressModes[i], text)}
        rule == addressModes[CHOOSE i \in found : \A o \in found : i <= o]
    IN  IF found = {}
        THEN [AddressMode |-> Null, Value |-> Null, err |-> "Should not get here!"]
        ELSE IF rule.values = {} THEN [AddressMode |-> rule, Value |-> Null, err |-> "none"]
        ELSE [AddressMode |-> rule,
              Value |-> ParseNumber(valueOf(rule, text), labels, pc + rule.bytes).v,
              err |-> ParseNumber(valueOf(rule, text), labels, pc + rule.bytes).err]

RECURSIVE splitLabel(_)
\* the regular expression of AssembleLine, "(?<label>[A-Za-z][A-Za-z0-9_]*[:])*":
\* the last label with its colon, and the rest of the line
splitLabel(text) ==
    LET colons == {i \in 1..Len(text) : text[i] = ":"}
        colon == CHOOSE i \in colons : \A o \in colons : i <= o
        next == splitLabel(SubSeq(text, colon + 1, Len(text)))
    IN  IF colons # {} /\ matchesValue("label", SubSeq(text, 1, colon - 1))
        THEN IF next.label = <<>> THEN [label |-> SubSeq(text, 1, colon), rest |-> next.rest]
             ELSE next
        ELSE [label |-> <<>>, rest |-> text]

RECURSIVE skipSpace(_)
\* "[\s]*"
skipSpace(text) == IF text # <<>> /\ Head(text) = " " THEN skipSpace(Tail(text)) ELSE text

RECURSIVE splitInstruction(_)
\* "(?<instruction>[A-Za-z]{3})*(?<operand>.*)*$": the last group of three
\* letters, and the rest of the line
splitInstruction(text) ==
    LET next == splitInstruction(SubSeq(text, 4, Len(text)))
    IN  IF Len(text) >= 3 /\ \A i \in 1..3 : text[i] \in Letters
        THEN IF next.instruction = <<>>
             THEN [instruction |-> SubSeq(text, 1, 3), operand |-> next.operand]
             ELSE next
        ELSE [instruction |-> <<>>, operand |-> text]

\* "this.opCodes6502Array.filter(a => a.rule.instruction === instruction &&
\* a.rule.addressMode === addressMode)": the keys of the op codes found
opCodesOf(instruction, addressMode) ==
    {key \in DOMAIN opCodes6502 :
       /\ Spelling[opCodes6502[key].instruction] = instruction
       /\ opCodes6502[key].addressMode = addressMode}

\* cpu6502d.AssembleLine, the instruction of the line: [bytes, err]
assembleInstruction(instruction, operand, pc, labels) ==
    LET parsed == Parse(operand, labels, pc)
        opCodes == opCodesOf(toUpperCase(instruction), parsed.AddressMode.mode)
        key == CHOOSE k \in opCodes : \A o \in opCodes : k <= o
        value == IF parsed.Value = Null THEN 0 ELSE parsed.Value
    IN  IF parsed.err # "none" THEN [bytes |-> <<>>, err |-> parsed.err]
        ELSE IF opCodes = {} THEN [bytes |-> <<>>, err |-> "Cannot find single op code"]
        ELSE [bytes |->
                CASE parsed.AddressMode.bytes = 1 -> <<key>>
                  [] parsed.AddressMode.bytes = 2 -> <<key, BitAnd(value, \hFF)>>
                  [] parsed.AddressMode.bytes = 3 ->
                       <<key, BitAnd(value, \hFF), BitAnd(value \div 256, \hFF)>>,
              err |-> "none"]

\* cpu6502d.AssembleLine(line, pc, labels): [bytes |-> the code of the line,
\* labels |-> the labels after the call, err |-> the exception]
AssembleLine(text, pc, labels) ==
    LET head == splitLabel(text)
        body == splitInstruction(skipSpace(head.rest))
        label == SubSeq(trim(toUpperCase(head.label)), 1,
                        Len(trim(toUpperCase(head.label))) - 1)
        defined == IF head.label = <<>> THEN labels
                   ELSE [name \in DOMAIN labels \cup {label} |->
                           IF name = label THEN pc ELSE labels[name]]
        code == assembleInstruction(body.instruction, body.operand, pc, defined)
    IN  IF text = <<>> THEN [bytes |-> <<>>, labels |-> labels, err |-> "none"]
        ELSE IF head.label # <<>> /\ label \in DOMAIN labels
        THEN [bytes |-> <<>>, labels |-> labels, err |-> "Label already exists in code"]
        ELSE IF body.instruction # <<>>
        THEN [bytes |-> code.bytes, labels |-> defined, err |-> code.err]
        ELSE IF trim(body.operand) # <<>>
        THEN [bytes |-> <<>>, labels |-> defined,
              err |-> "Invalid format - operand specified without instruction."]
        ELSE [bytes |-> <<>>, labels |-> defined, err |-> "none"]

\* no call of the assembler made
\* no call of the assembler made: the lines to assemble, the pc and the
\* labels of the next call of AssembleLine, the bytes assembled so far; the
\* call is of Assemble ("source") or of AssembleLine ("line"); job is the
\* branch the text ends in; last is the call of AssembleLine made by the
\* last step: its arguments and the bytes it returned
NoAsm ==
    [kind |-> "none", lines |-> <<>>, pc |-> 0, labels |-> <<>>, bytes |-> <<>>,
     err |-> "none", called |-> FALSE, job |-> [mnemonic |-> <<>>, name |-> <<>>],
     last |-> [text |-> <<>>, pc |-> 0, labels |-> <<>>, bytes |-> <<>>]]

-----------------------------------------------------------------------------
(* The history variable obs.  It changes nothing of the machine: it keeps  *)
(* what the last call did and the CPU state the claims compare against.    *)

\* the entries of a call log with one of the given names
Tagged(log, names) == SelectSeq(log, LAMBDA e : e[1] \in names)

\* the bytes pushed during a call, in order
Pushed(log) == [i \in 1..Len(Tagged(log, {"push"})) |-> Tagged(log, {"push"})[i][2]]

\* the registers of a CPU record
Regs(r) == [A |-> r.A, X |-> r.X, Y |-> r.Y, P |-> r.P, SP |-> r.SP, PC |-> r.PC]

\* no instruction executed yet / no interrupt open
NoInstruction ==
    [op |-> -1, at |-> 0, cpu |-> Regs(NewCpu), clean |-> TRUE, held |-> FALSE]
NoEntry == [kind |-> "none", cpu |-> Regs(NewCpu), ra |-> 0, plain |-> TRUE]

\* no tick of the machine made yet
NoTick ==
    [n |-> 0, start |-> FALSE, up |-> FALSE, sampled |-> FALSE, end |-> FALSE,
     latched |-> FALSE, before |-> FALSE]

\* the history of a VIA on its own, before its run:
\*   timer    the timer that the setup loaded ("t1", "t2" or "none") and
\*   N        the count it was loaded with
\*   ticks    the ticks made since, budget the ticks the run may still make
\*   idled    a stretch of ticks without a time-out was skipped
\*   ops      the reads, writes and resets made
\*   op       the last step: "tick", "idle", "read", "write" or "reset", with
\*            the register and the byte read or written
\*   pre      the chip before the last step
\*   cleared  the flag of the timer was cleared, after it was set, by a read
\*            of R4 (T1) or a write of RD (T2)
\*   rearmed  R5 or R9 was written, or R8 read, after that
\*   samples  the reads of the irq getter made, line the value of the last
\*            one, edges the reads that were true after none or a false one
NoVia ==
    [timer |-> "none", N |-> 0, ticks |-> 0, budget |-> 0, idled |-> FALSE, ops |-> 0,
     op |-> [kind |-> "none", register |-> 0, v |-> 0], pre |-> NewVia,
     cleared |-> FALSE, rearmed |-> FALSE, samples |-> 0, line |-> FALSE, edges |-> 0]

\* no cycle of the video chip made yet
NoVideo == [done |-> FALSE, pre |-> NewVic]

\* nothing run by the frame loop yet: the calls made from outside and the
\* timers fired so far, the last step, whether it called Vic20.cycle, whether
\* its frameRepeat set a timer, whether its tick drew the frame; whether,
\* before the last step, the machine was stopped (stop() with no start()
\* since), loaded (reset() with no start() since), or had raised an exception
\* in a frame (with no start() or reset() since)
NoFrame ==
    [calls |-> 0, fired |-> 0, op |-> "none", cycled |-> FALSE, scheduled |-> FALSE,
     drawn |-> FALSE, stopped |-> FALSE, loaded |-> FALSE, fatal |-> FALSE,
     was |-> [stopped |-> FALSE, loaded |-> FALSE, fatal |-> FALSE], pre |-> NewHost]

InitObs ==
    [called |-> FALSE, log |-> <<>>, pre |-> NewCpu, exec |-> FALSE, last |-> NoInstruction,
     prev |-> NoInstruction, entry |-> NoEntry, ret |-> NoEntry, requests |-> 0,
     since |-> 0, reset |-> [done |-> FALSE, pc |-> Null],
     word |-> [done |-> FALSE, offset |-> 0, v |-> 0], tick |-> NoTick, via |-> NoVia,
     video |-> NoVideo, frame |-> NoFrame]

\* obs after a call of cpu.cycle() that took the machine from b to n:
\*   called the step was a call of cpu.cycle() (not a request from outside)
\*   log    the call log of the step
\*   pre    the CPU before the call
\*   exec   the call executed an instruction (it began at an instruction boundary)
\*   last   the instruction executed most recently, the registers before it, whether
\*          its call entered no hardware interrupt (clean), and whether it began with
\*          an IRQ latched and the I flag set (held)
\*   prev   the instruction executed before last
\*   entry  the innermost interrupt entered and not yet returned from: its kind,
\*          the registers before it, the return address it pushed, and whether every
\*          handler instruction so far was a NOP (plain)
\*   ret    the entry that the RTI executed by this call returned from
\*   requests  the number of interrupt requests made so far
\*   reset  whether reset(pc) was called after the run began, and its argument
\*   word   whether Memory.readWord(offset) was called from outside, its argument
\*          and the word it returned
\*   since  the number of calls of cpu.cycle() made for the instruction executed
\*          most recently, the call that executed it included
Observe(o, b, n) ==
    LET exec == b.cpu.Cycles = 0 /\ n.err = "none"
        op == n.cpu.currentInstruction
        ent == Tagged(n.log, {"irq", "nmi", "brk"})
        hw == Tagged(n.log, {"irq", "nmi"})
        cur == [op |-> op, at |-> n.cpu.lastPc, cpu |-> Regs(b.cpu), clean |-> hw = <<>>,
                held |-> b.cpu.requiresIrq /\ isSet(b, Interrupt)]
        opened == [kind |-> IF Len(ent) = 1 THEN ent[1][1] ELSE "nested",
                   cpu |-> Regs(b.cpu),
                   ra |-> Pushed(n.log)[1] * 256 + Pushed(n.log)[2],
                   plain |-> Len(ent) = 1 /\ op \in {0, \hEA, \h40}]
        open == IF ent # <<>> THEN opened ELSE o.entry
        entry == IF op = \h40 THEN NoEntry
                 ELSE IF op \in {0, \hEA} THEN open
                 ELSE [open EXCEPT !.plain = FALSE]
        ret == IF op = \h40 THEN open ELSE NoEntry
    IN  IF exec
        THEN [o EXCEPT !.called = TRUE, !.log = n.log, !.pre = b.cpu, !.exec = TRUE,
                       !.last = cur, !.prev = o.last, !.entry = entry, !.ret = ret,
                       !.since = 1]
        ELSE [o EXCEPT !.called = TRUE, !.log = n.log, !.pre = b.cpu, !.exec = FALSE,
                       !.ret = NoEntry, !.since = @ + 1]

-----------------------------------------------------------------------------
(* Programs.  A program is a start address for reset(pc) and the segments  *)
(* <<address, bytes>> that loadData writes before it.                      *)

RECURSIVE Image(_, _)
\* the memory after loading the segments
Image(ram, segments) ==
    IF segments = <<>> THEN ram
    ELSE Image(loadData(ram, Head(segments)[2], Head(segments)[1]), Tail(segments))

\* the three vectors: NMI -> 0x1200, reset -> 0x1000, IRQ/BRK -> 0x1100
Vectors == <<\hFFFA, <<\h00, \h12, \h00, \h10, \h00, \h11>>>>

\* IRQ handler NOP; RTI and NMI handler RTI
Handlers == << <<\h1100, <<\hEA, \h40>>>>, <<\h1200, <<\h40>>>> >>

\* <first>; <body>; NOP; CLI; NOP; JMP $1001 -- entered through the reset
\* vector, interrupted by IRQ, NMI and (body BRK) by software; first is one
\* of NOP, SEI, SED, SEC and body one of NOP, BRK + padding, PHP
InterruptPrograms ==
    { [pc |-> Null,
       segments |-> << <<\h1000, <<first>> \o body
                                  \o <<\hEA, \h58, \hEA, \h4C, \h01, \h10>>>>,
                       Vectors >> \o Handlers] :
      first \in {\hEA, \h78, \hF8, \h38},
      body \in { <<\hEA>>, <<\h00, \hEA>>, <<\h08>> } }

\* LDA #$10; PHA; LDA #$10; PHA; LDA #f; PHA; RTI; at $1010: NOP; JMP $1010
\* -- an RTI that pulls a status byte f written by the program
RtiPrograms ==
    { [pc |-> \h1000,
       segments |-> << <<\h1000, <<\hA9, \h10, \h48, \hA9, \h10, \h48, \hA9, f, \h48,
                                   \h40>>>>,
                       <<\h1010, <<\hEA, \h4C, \h10, \h10>>>>,
                       Vectors >> \o Handlers] :
      f \in {\h00, \h10, \h20, \h30, \hCF, \hFF} }

\* at $0200: LDX #$FF; TXS; JMP a; at a: JSR $1300; at $1300: RTS; NOPs
\* follow the JSR (also at 0, where the program counter wraps to).  The run
\* starts at $0200, or at a itself with the stack pointer reset() leaves
JsrPrograms ==
    { [pc |-> IF direct THEN a ELSE \h0200,
       segments |-> << <<\h0000, <<\hEA, \hEA, \hEA, \hEA>>>>,
                       <<\h1003, <<\hEA, \hEA>>>>, <<\h1100, <<\hEA, \hEA, \hEA>>>>,
                       <<\h1300, <<\h60>>>>,
                       <<\h0200, <<\hA2, \hFF, \h9A, \h4C, a % 256, a \div 256>>>>,
                       <<a, <<\h20>>>>, <<(a + 1) % \h10000, <<\h00>>>>,
                       <<(a + 2) % \h10000, <<\h13>>>> >>] :
      direct \in BOOLEAN, a \in {\h1000, \h10FE, \hFFF0, \hFFFD, \hFFFE, \hFFFF} }

\* programs that run across the top of memory: NOP, LDA #, BNE and LDA abs
\* as the last instruction below 0x10000
WrapPrograms ==
    { [pc |-> at,
       segments |-> << <<\h0000, <<\h01, \hEA, \hEA, \hEA>>>>, <<at, first>> >>] :
      at \in {\hFFFC, \hFFFE, \hFFFF},
      first \in { <<\hEA>>, <<\hA9>>, <<\hD0>>, <<\hAD>> } }

\* the opcodes of the programs below: illegal NOPs of one, two and three
\* bytes, a JAM, and two bytes that are in no opcode table
IllegalOpcodes == {\h1A, \h80, \h04, \h0C, \h02, \h03, \hFF}

\* NOP; b; 0; 0 at $1000, or b as the last byte of memory
IllegalPrograms ==
    { [pc |-> \h1000,
       segments |-> << <<\h1000, <<\hEA, b, \h00, \h00>>>>, Vectors >> \o Handlers] :
      b \in IllegalOpcodes }
    \cup
    { [pc |-> \hFFFF,
       segments |-> << <<\hFFFA, <<\h00, \h12, \h00, \h10, \h00, b>>>>,
                       <<\h1200, <<\h40>>>> >>] :
      b \in IllegalOpcodes }

Programs ==
    InterruptPrograms \cup RtiPrograms \cup JsrPrograms \cup WrapPrograms \cup IllegalPrograms

-----------------------------------------------------------------------------
(* The CPU on its own: a cpu6502 over a Memory without devices, as the     *)
(* unit tests build it.  The requests for interrupts come from outside.    *)

\* the machine record of the current state, its call log empty
Machine ==
    [cpu |-> cpu, mem |-> mem, bus |-> bus, via1 |-> via1, via2 |-> via2,
     vic |-> vic, lastNmi |-> lastNmi, err |-> err, log |-> <<>>]

\* the next state is the machine n with history o
Commit(n, o) ==
    /\ cpu' = n.cpu /\ mem' = n.mem /\ bus' = n.bus
    /\ via1' = n.via1 /\ via2' = n.via2 /\ vic' = n.vic
    /\ lastNmi' = n.lastNmi /\ err' = n.err /\ host' = host /\ asm' = asm
    /\ obs' = o

\* new Memory(): every cell 0
EmptyMem == [a \in {} |-> 0]

\* new cpu6502(new Memory()), the program loaded, reset(pc)
StartCpu(prog) ==
    reset([cpu |-> NewCpu, mem |-> Image(EmptyMem, prog.segments),
           bus |-> [expansion |-> "unexpanded", devices |-> FALSE],
           via1 |-> NewVia, via2 |-> NewVia, vic |-> NewVic, lastNmi |-> FALSE,
           err |-> "none", log |-> <<>>], prog.pc, Null)

\* the state variables are the fields of the machine n, the history is empty
Begin(n) ==
    /\ cpu = n.cpu /\ mem = n.mem /\ bus = n.bus
    /\ via1 = n.via1 /\ via2 = n.via2 /\ vic = n.vic
    /\ lastNmi = n.lastNmi /\ err = n.err /\ host = NewHost /\ asm = NoAsm
    /\ obs = InitObs

InitCpu == \E prog \in Programs : Begin(StartCpu(prog))

\* a run ends at the first exception and after MaxC calls of cpu.cycle()
Running == err = "none" /\ cpu.c < MaxC

\* obs after a request: no call of cpu.cycle() was made, one more request
Requested(o) ==
    [o EXCEPT !.called = FALSE, !.log = <<>>, !.exec = FALSE, !.ret = NoEntry,
              !.requests = @ + 1]

\* the step from the current state by a call that leaves the machine n
Step(n) == Commit(n, Observe(obs, Machine, n))

\* one call of cpu.cycle()
CpuCycle == Running /\ Step(cycle(Machine))

\* the owner of the CPU latches an IRQ: cpu.requiresIrq = true
RequestIrq ==
    /\ Running /\ ~cpu.requiresIrq /\ obs.requests < MaxRequests
    /\ Commit([Machine EXCEPT !.cpu.requiresIrq = TRUE], Requested(obs))

\* the owner of the CPU latches an NMI: cpu.requiresNmi = true
RequestNmi ==
    /\ Running /\ ~cpu.requiresNmi /\ obs.requests < MaxRequests
    /\ Commit([Machine EXCEPT !.cpu.requiresNmi = TRUE], Requested(obs))

NextCpu == CpuCycle \/ RequestIrq \/ RequestNmi

SpecCpu == InitCpu /\ [][NextCpu]_vars

-----------------------------------------------------------------------------
(* The CPU of the functional tests: reset(pc, trapPc) arms the trap, and   *)
(* the program ends in an instruction that jumps to itself.                *)

\* at $1000: CLC; then JMP $1001 or BCC $1001 (an instruction that is its
\* own target), or NOP; JMP $1000 (a loop that is not)
TrapPrograms ==
    { [pc |-> \h1000, segments |-> << <<\h1000, <<\h18>> \o body>>, Vectors >> \o Handlers] :
      body \in { <<\h4C, \h01, \h10>>, <<\h90, \hFE>>, <<\hEA, \h4C, \h00, \h10>> } }

\* the trap addresses of a run: the self-loop of the program, two other
\* addresses, 0 (for which "if (trapPc)" is false) and none
TrapAddresses == {\h1001, \h1000, \h1004, 0, Null}

\* new cpu6502(new Memory()), the program loaded, reset(pc, trapPc)
StartTrap(prog, trapPc) ==
    reset([cpu |-> NewCpu, mem |-> Image(EmptyMem, prog.segments),
           bus |-> [expansion |-> "unexpanded", devices |-> FALSE],
           via1 |-> NewVia, via2 |-> NewVia, vic |-> NewVic, lastNmi |-> FALSE,
           err |-> "none", log |-> <<>>], prog.pc, trapPc)

InitTrap == \E prog \in TrapPrograms : \E trapPc \in TrapAddresses : Begin(StartTrap(prog, trapPc))

SpecTrap == InitTrap /\ [][NextCpu]_vars

-----------------------------------------------------------------------------
(* The whole machine: Vic20 after reset(), clocked by cycle().  The ROM is *)
(* a small kernal image that programs a timer of one VIA and enables its   *)
(* interrupt; VIA1 drives the NMI line, VIA2 the IRQ line.                 *)

\* the vectors of the image: NMI -> 0xE100, reset -> 0xE000, IRQ/BRK -> 0xE180
RomVectors == <<\hFFFA, <<\h00, \hE1, \h00, \hE0, \h80, \hE1>>>>

\* both handlers are a single RTI; the idle loop is NOP; JMP $E080
RomHandlers ==
    << <<\hE100, <<\h40>>>>, <<\hE180, <<\h40>>>>,
       <<\hE080, <<\hEA, \h4C, \h80, \hE0>>>> >>

\* LDA #acr; STA base+$B -- the mode of timer 1 (bit 6: free running)
SetMode(base, acr) == <<\hA9, acr, \h8D, base + \h0B, \h91>>

\* LDA #ier; STA base+$E -- enable the interrupt of the timer
Enable(base, ier) == <<\hA9, ier, \h8D, base + \h0E, \h91>>

\* LDX #latch; STX base+lo; STY base+lo+1 -- start the timer from latch
StartTimer(base, lo, latch) ==
    <<\hA2, latch, \h8E, base + lo, \h91, \h8C, base + lo + 1, \h91>>

\* the kernal images: the chip (base $10 is VIA1 at $9110, $20 is VIA2 at
\* $9120), the timer (timer 1 one-shot, timer 1 free running, timer 2), the
\* latch, and whether the interrupt is enabled before the timer is started
\* or after it has run out
RomPrograms ==
    { [segments |->
         << <<\hE000,
              SetMode(base, IF timer = "t1free" THEN \h40 ELSE 0)
              \o (IF enableFirst
                  THEN Enable(base, IF timer = "t2" THEN \hA0 ELSE \hC0)
                       \o StartTimer(base, IF timer = "t2" THEN 8 ELSE 4, latch)
                  ELSE StartTimer(base, IF timer = "t2" THEN 8 ELSE 4, latch)
                       \o <<\hEA>>
                       \o Enable(base, IF timer = "t2" THEN \hA0 ELSE \hC0))
              \o <<\h4C, \h80, \hE0>> >>,
            RomVectors >> \o RomHandlers] :
      base \in {\h10, \h20}, timer \in {"t1", "t1free", "t2"},
      latch \in 1..MaxLatch, enableFirst \in BOOLEAN }

\* Vic20.reset(): new Memory, Cpu, Vic and VIAs, the ROM loaded, both VIAs
\* reset, then Cpu.reset() through the reset vector
StartMachine(prog) ==
    reset([cpu |-> NewCpu, mem |-> Image(EmptyMem, prog.segments),
           bus |-> [expansion |-> "unexpanded", devices |-> TRUE],
           via1 |-> via_reset(NewVia), via2 |-> via_reset(NewVia), vic |-> NewVic,
           lastNmi |-> FALSE, err |-> "none", log |-> <<>>], Null, Null)

\* the effective interrupt line of a VIA: what the irq getter returns
Line(via) == via_irq(via).v

\* obs after a tick that took the machine from m to n, b being the machine
\* when the tick called Cpu.cycle.  On top of what Observe keeps of the call:
\*   tick.n        the number of ticks made
\*   tick.start    the line of VIA1 when the tick began
\*   tick.up       the line of VIA1 after both cycleUp calls
\*   tick.sampled  the line of VIA1 when Cpu.cycle was called
\*   tick.end      the line of VIA1 when the tick ended
\*   tick.latched  cpu.requiresNmi when the tick began
\*   tick.before   the CPU raised the line of VIA1 in the tick before: that
\*                 tick called Cpu.cycle with the line down and ended with it up
ObserveTick(o, m, b, n) ==
    [Observe(o, b, n) EXCEPT
       !.tick = [n |-> o.tick.n + 1,
                 start |-> Line(m.via1),
                 up |-> Line(cycleUps(sampleLastNmi(m)).via1),
                 sampled |-> Line(b.via1),
                 end |-> Line(n.via1),
                 latched |-> m.cpu.requiresNmi,
                 before |-> o.tick.n > 0 /\ ~o.tick.sampled /\ o.tick.end]]

Init == \E prog \in RomPrograms : Begin(StartMachine(prog))

\* one call of Vic20.cycle(); a run ends at the first exception and after
\* MaxTicks ticks
Tick ==
    /\ err = "none" /\ obs.tick.n < MaxTicks
    /\ \E n \in {Vic20_cycle(Machine)} :
          Commit(n, ObserveTick(obs, Machine, Vic20_cycle_up(Machine), n))

Next == Tick

Spec == Init /\ [][Next]_vars

-----------------------------------------------------------------------------
(* One arithmetic instruction on its own: a cpu6502 over a Memory without  *)
(* devices that holds the instruction at 0x1000, with the accumulator, the *)
(* index registers and the C and D flags as earlier instructions (LDA, LDX,*)
(* LDY, SEC / CLC, SED / CLD) can leave them.                              *)

\* the bytes that are valid BCD: both nibbles at most 9
Bcd == { 16 * h + l : h, l \in 0..9 }

\* bytes with a nibble above 9
NotBcd == {\h0A, \h0F, \h9A, \hA0, \hA9, \hAA, \hAF, \hF0, \hFA, \hFF}

\* the bytes of the accumulator and of the operand
Operands == Bcd \cup NotBcd

\* ADC #, SBC # -- the instructions that take the operand byte
ArithmeticOpcodes == {\h69, \hE9}

\* INX, DEX, INY, DEY, ASL A, ROL A, LSR A, ROR A, TAX, TXA, TAY, TYA, TSX,
\* PLA -- no operand
RegisterOpcodes ==
    {\hE8, \hCA, \hC8, \h88, \h0A, \h2A, \h4A, \h6A, \hAA, \h8A, \hA8, \h98, \hBA, \h68}

\* reset(0x1000) over the instruction, then A = X = Y = a and P = p
StartAlu(op, a, operand, p) ==
    [StartCpu([pc |-> \h1000, segments |-> << <<\h1000, <<op, operand>>>> >>])
       EXCEPT !.cpu.A = a, !.cpu.X = a, !.cpu.Y = a, !.cpu.P = p]

InitAlu ==
    \E a \in Operands, p \in {0, Carry, Decimal, Carry + Decimal} :
       \/ \E op \in ArithmeticOpcodes, operand \in Operands :
             Begin(StartAlu(op, a, operand, p))
       \/ \E op \in RegisterOpcodes : Begin(StartAlu(op, a, 0, p))

\* the call of cpu.cycle() that executes the instruction
AluExecute == err = "none" /\ ~obs.called /\ Step(cycle(Machine))

NextAlu == AluExecute

SpecAlu == InitAlu /\ [][NextAlu]_vars

-----------------------------------------------------------------------------
(* reset(pc) called on a CPU that has run: the programs that load A, X and *)
(* SP, over memories whose reset vector is 0x1000, 0 or part of a program. *)

\* the arguments of reset: none, 0, and addresses up to the top of memory
ResetArguments == {Null, \h0000, \h0001, \h1000, \hFFFF}

InitReset == \E prog \in RtiPrograms \cup JsrPrograms : Begin(StartCpu(prog))

\* one call of cpu.cycle() before the reset
RunToReset == Running /\ ~obs.reset.done /\ Step(cycle(Machine))

\* cpu.reset(pc), once, at any point of the run
Reset ==
    /\ err = "none" /\ ~obs.reset.done
    /\ \E pc \in ResetArguments :
          Commit(reset(Machine, pc, Null),
                 [obs EXCEPT !.called = FALSE, !.log = <<>>, !.pre = cpu, !.exec = FALSE,
                             !.ret = NoEntry, !.reset = [done |-> TRUE, pc |-> pc]])

NextReset == RunToReset \/ Reset

SpecReset == InitReset /\ [][NextReset]_vars

-----------------------------------------------------------------------------
(* Memory under every memory model, written by the CPU: a cpu6502 over a   *)
(* new Memory(expansion) that holds the byte 0x5A, installed by loadData,  *)
(* at the target address and the program LDA #value; STA target; NOP at    *)
(* 0x1000.                                                                 *)

\* MemoryModel
MemoryModels ==
    {"unexpanded", "expanded_3k", "expanded_8k", "expanded_16k", "expanded_24k",
     "expanded_32k", "expanded_35k", "test"}

\* the first and last address of the character ROM, the BASIC ROM and the
\* kernal ROM
RomOffsets == {\h8000, \h8FFF, \hC000, \hDFFF, \hE000, \hFFFF}

\* main RAM, RAM1 and BLK5
RamOffsets == {\h1800, \h0400, \hA000}

\* new cpu6502(new Memory(expansion)), loadData of the byte and of the
\* program, reset(0x1000)
StartStore(expansion, target, value) ==
    reset([cpu |-> NewCpu,
           mem |-> Image(EmptyMem, << <<target, <<\h5A>>>>,
                                      <<\h1000, <<\hA9, value, \h8D, target % 256,
                                                  target \div 256, \hEA>>>> >>),
           bus |-> [expansion |-> expansion, devices |-> FALSE],
           via1 |-> NewVia, via2 |-> NewVia, vic |-> NewVic, lastNmi |-> FALSE,
           err |-> "none", log |-> <<>>], \h1000, Null)

InitMemory ==
    \E expansion \in MemoryModels, target \in RomOffsets \cup RamOffsets,
       value \in {\h00, \hA5} :
       Begin(StartStore(expansion, target, value))

\* one call of cpu.cycle(), up to the end of the NOP
StoreCycle ==
    /\ err = "none" /\ ~obs.word.done /\ ~(obs.last.op = \hEA /\ cpu.Cycles = 0)
    /\ Step(cycle(Machine))

\* the offsets of the words read: in page zero, in the program, the
\* vectors, and the last byte of memory
WordOffsets == {\h0000, \h00FF, \h1002, \h1003, \hFFFC, \hFFFE, \hFFFF}

\* Memory.readWord(offset) called from outside, once, at any point of the run
ReadWord ==
    /\ err = "none" /\ ~obs.word.done
    /\ \E offset \in WordOffsets :
          \E r \in {readWord(Machine, offset)} :
             Commit(r.m, [obs EXCEPT !.called = FALSE, !.log = <<>>, !.exec = FALSE,
                                     !.ret = NoEntry,
                                     !.word = [done |-> TRUE, offset |-> offset, v |-> r.v]])

NextMemory == StoreCycle \/ ReadWord

SpecMemory == InitMemory /\ [][NextMemory]_vars

-----------------------------------------------------------------------------
(* One indirect load on its own: LDA (operand,X) or LDA (operand),Y at     *)
(* 0x1000 over a memory that holds a pointer in page zero, the byte 0xC3   *)
(* where the 6502 finds the operand of the load, and the byte 0x30 at      *)
(* 0x0100, the first cell above page zero.                                 *)

\* the pointers in page zero
Pointers == {\h2000, \h20F0, \hFF00, \hFFF0, \hFFFF}

\* the values of the index register
Indexes == {\h00, \h01, \h10, \hBF, \hFF}

\* reset(0x1000) over the load, the pointer at z and (z + 1) mod 0x100, and
\* the byte 0xC3 at the address target; then X = x and Y = y, as LDX and
\* LDY leave them
StartLoad(op, operand, x, y, z, pointer, target) ==
    [reset([cpu |-> NewCpu,
            mem |-> Image(EmptyMem, << <<target, <<\hC3>>>>, <<\h0100, <<\h30>>>>,
                                       <<z, <<pointer % 256>>>>,
                                       <<(z + 1) % 256, <<pointer \div 256>>>>,
                                       <<\h1000, <<op, operand>>>> >>),
            bus |-> [expansion |-> "unexpanded", devices |-> FALSE],
            via1 |-> NewVia, via2 |-> NewVia, vic |-> NewVic, lastNmi |-> FALSE,
            err |-> "none", log |-> <<>>], \h1000, Null)
       EXCEPT !.cpu.X = x, !.cpu.Y = y]

InitLoad ==
    \E pointer \in Pointers, index \in Indexes :
       \/ \E operand \in {\h00, \h40, \hFF} :
             Begin(StartLoad(\hA1, operand, index, 0, (operand + index) % 256,
                             pointer, pointer))
       \/ \E operand \in {\h10, \hFE} :
             Begin(StartLoad(\hB1, operand, 0, index, operand,
                             pointer, (pointer + index) % \h10000))

\* one call of cpu.cycle(), up to the end of the load
LoadCycle ==
    /\ err = "none" /\ ~(obs.called /\ cpu.Cycles = 0)
    /\ Step(cycle(Machine))

NextLoad == LoadCycle

SpecLoad == InitLoad /\ [][NextLoad]_vars

-----------------------------------------------------------------------------
(* A via6522 on its own: the chip after reset() and the writes of a setup  *)
(* that loads one of its timers or programs its ports, then clocked by     *)
(* cycleUp / cycleDown and read, written and reset from outside.  Nothing  *)
(* calls the irq getter.  The chip is via1; the rest of the machine is     *)
(* that of an empty CPU harness and does not change.                       *)

\* the writes that load T1 with n in the mode acr, with its interrupt
\* enabled or not
SetupT1(acr, enabled, n) ==
    << <<RB_ACR, acr>> >> \o (IF enabled THEN << <<RE_IER, \hC0>> >> ELSE <<>>)
    \o << <<R4_T1C_L, n % 256>>, <<R5_T1C_H, n \div 256>> >>

\* the writes that load T2 with n as an interval timer
SetupT2(enabled, n) ==
    (IF enabled THEN << <<RE_IER, \hA0>> >> ELSE <<>>)
    \o << <<R8_T2C_L, n % 256>>, <<R9_T2C_H, n \div 256>> >>

\* the writes that program the direction of the ports and their outputs
SetupPorts(ddr) == << <<3, ddr>>, <<1, \hA5>>, <<2, ddr>>, <<0, \hA5>> >>

\* the setups: [timer, N, port (the level of the pins of both ports), writes]
ViaSetups ==
    { [timer |-> "t1", N |-> n, port |-> \hFF, writes |-> SetupT1(acr, enabled, n)] :
      acr \in {\h00, \h40}, enabled \in BOOLEAN, n \in {1, 2} }
    \cup { [timer |-> "t1", N |-> \h10, port |-> \hFF, writes |-> SetupT1(\h00, FALSE, \h10)] }
    \cup
    { [timer |-> "t2", N |-> n, port |-> \hFF, writes |-> SetupT2(enabled, n)] :
      enabled \in BOOLEAN, n \in {1, 2, \h0103} }
    \cup
    { [timer |-> "none", N |-> 0, port |-> port, writes |-> SetupPorts(ddr)] :
      port \in {\hFF, \h3C}, ddr \in {\h00, \h0F, \hFF} }

\* new via6522, reset(), the writes of the setup
StartVia(setup) ==
    [StartCpu([pc |-> \h1000, segments |-> <<>>]) EXCEPT
       !.via1 = via_writes(via_reset([NewVia EXCEPT !.portA = setup.port,
                                                    !.portB = setup.port]),
                           setup.writes)]

InitVia ==
    \E setup \in ViaSetups :
       \E n \in {StartVia(setup)} :
          /\ cpu = n.cpu /\ mem = n.mem /\ bus = n.bus
          /\ via1 = n.via1 /\ via2 = n.via2 /\ vic = n.vic
          /\ lastNmi = n.lastNmi /\ err = n.err /\ host = NewHost /\ asm = NoAsm
          /\ obs = [InitObs EXCEPT !.via.timer = setup.timer, !.via.N = setup.N,
                                   !.via.budget = (setup.N % 256) + MaxViaTicks,
                                   !.via.pre = n.via1]

\* IFR bit 5 (T2) or 6 (T1) as stored in the chip
Flag(via, flag) == (via.reg[RD_IFR] \div Pow2(flag)) % 2 = 1

\* the bit of IFR of the timer that the setup loaded
TimerBit == IF obs.via.timer = "t2" THEN R5_T2 ELSE R6_T1

\* the step of the chip from via1 to n by the operation op
ViaStep(n, op) ==
    Commit([Machine EXCEPT !.via1 = n],
           [obs EXCEPT
              !.via.op = op, !.via.pre = via1,
              !.via.ops = @ + (IF op.kind \in {"read", "write", "reset"} THEN 1 ELSE 0),
              !.via.ticks = @ + (IF op.kind = "tick" THEN 1 ELSE 0),
              !.via.budget = IF op.kind = "tick" THEN @ - 1
                             ELSE IF op.kind = "idle"
                             THEN (obs.via.N % 256) + MaxViaTicks ELSE @,
              !.via.idled = @ \/ op.kind = "idle",
              !.via.samples = @ + (IF op.kind = "irq" THEN 1 ELSE 0),
              !.via.line = IF op.kind = "irq" THEN op.v = 1 ELSE @,
              !.via.edges = @ + (IF op.kind = "irq" /\ op.v = 1 /\ ~obs.via.line
                                 THEN 1 ELSE 0),
              !.via.cleared =
                 @ \/ (/\ Flag(via1, TimerBit) /\ ~Flag(n, TimerBit)
                       /\ \/ obs.via.timer = "t1" /\ op.kind = "read"
                             /\ op.register = R4_T1C_L
                          \/ obs.via.timer = "t2" /\ op.kind = "write"
                             /\ op.register = RD_IFR),
              !.via.rearmed =
                 @ \/ op.kind = "reset"
                   \/ (op.kind = "write" /\ op.register \in {R5_T1C_H, R9_T2C_H})
                   \/ (op.kind = "read" /\ op.register = R8_T2C_L)])

\* one tick of the clock: cycleUp(), then cycleDown()
ViaTick ==
    /\ obs.via.budget > 0
    /\ ViaStep(cycleDown(cycleUp(via1)), [kind |-> "tick", register |-> 0, v |-> 0])

\* k ticks in which neither timer runs out: each cycleUp finds both counters
\* above zero and each cycleDown takes one from both
elapse(via, k) ==
    setTimer(setTimer([via EXCEPT !.lastCA1 = TRUE, !.lastCB1 = TRUE,
                                  !.CA1 = TRUE, !.CB1 = TRUE],
                      1, getTimer(via, 1) - k),
             2, getTimer(via, 2) - k)

\* the ticks up to two ticks before the next time-out, once, when the ticks
\* of the run are used up and both counters are far from zero
ViaIdle ==
    /\ obs.via.budget = 0 /\ ~obs.via.idled
    /\ getTimer(via1, 1) > \hFF /\ getTimer(via1, 2) > \hFF
    /\ \E k \in { (IF getTimer(via1, 1) < getTimer(via1, 2)
                   THEN getTimer(via1, 1) ELSE getTimer(via1, 2)) - 2 } :
          ViaStep(elapse(via1, k), [kind |-> "idle", register |-> 0, v |-> k])

\* the registers read from outside: ORB, ORA, T1C-L, T2C-L, T2C-H, IFR, IER
ViaReads == {0, 1, R4_T1C_L, R8_T2C_L, R9_T2C_H, RD_IFR, RE_IER}

\* via.read(register)
ViaRead ==
    /\ obs.via.ops < MaxViaOps /\ ~obs.via.idled
    /\ \E register \in ViaReads :
          \E r \in {via_read(via1, register)} :
             ViaStep(r.via, [kind |-> "read", register |-> register, v |-> r.v])

\* via.write(RD_IFR, 0x60): the program clears both timer flags
ViaWrite ==
    /\ obs.via.ops < MaxViaOps /\ ~obs.via.idled
    /\ ViaStep(via_write(via1, RD_IFR, \h60),
               [kind |-> "write", register |-> RD_IFR, v |-> \h60])

\* via.reset()
ViaReset ==
    /\ obs.via.ops < MaxViaOps /\ ~obs.via.idled
    /\ ViaStep(via_reset(via1), [kind |-> "reset", register |-> 0, v |-> 0])

NextVia == ViaTick \/ ViaIdle \/ ViaRead \/ ViaWrite \/ ViaReset

SpecVia == InitVia /\ [][NextVia]_vars

\* "via.irq": the owner of the chip reads its interrupt line, as Vic20.cycle
\* does three times in a tick
ViaIrq ==
    /\ obs.via.samples < MaxSamples
    /\ \E r \in {via_irq(via1)} :
          ViaStep(r.via, [kind |-> "irq", register |-> 0, v |-> IF r.v THEN 1 ELSE 0])

NextLine == ViaTick \/ ViaIdle \/ ViaRead \/ ViaWrite \/ ViaReset \/ ViaIrq

\* the chip on its own, its interrupt line read from outside at any time
SpecLine == InitVia /\ [][NextLine]_vars

-----------------------------------------------------------------------------
(* The video chip on its own: a Vic6560 of either region whose control     *)
(* registers the program has written, stepped through whole frames.        *)

\* the registers a program writes to lay out the screen: the defaults; the
\* screen at the top of the 16K with the largest matrix the registers can
\* describe; double-height characters from character memory at 0x3C00 with
\* the text area at the left edge
VideoSetups ==
    { <<>>,
      << <<0, 0>>, <<1, 0>>, <<2, \hFF>>, <<3, \h7E>>, <<5, \hF0>> >>,
      << <<0, 0>>, <<3, \hAF>>, <<5, \hFF>> >> }

\* the characters on the screen: memory model "unexpanded" has RAM at 0x1E00
\* (the default screen) and at 0x1C00, colour RAM at 0x9600 and 0x9400
ScreenImage ==
    << <<\h1E00, <<\hFF, \h81, \h01>> >>, <<\h1C00, <<\hFF, \h20>> >>,
       <<\h9600, <<\h08, \h01>> >>, <<\h9400, <<\h0F>> >> >>

\* new Vic6560(videoRegion, ..) in the machine after reset(), then the writes
\* of the program to the control registers
StartVideo(videoRegion, writes) ==
    The({ [n EXCEPT !.vic = vic_writes(NewVic6560(videoRegion), writes),
                    !.bus.devices = TRUE] :
          n \in {StartCpu([pc |-> \h1000, segments |-> ScreenImage])} })

InitVideo ==
    \E videoRegion \in {"ntsc", "pal"} : \E writes \in VideoSetups :
       Begin(StartVideo(videoRegion, writes))

\* one call of Vic6560.Cycle()
VideoCycle ==
    /\ err = "none"
    /\ \E n \in {Cycle(Machine)} :
          Commit(n, [obs EXCEPT !.log = n.log, !.video = [done |-> TRUE, pre |-> vic]])

NextVideo == VideoCycle

SpecVideo == InitVideo /\ [][NextVideo]_vars

-----------------------------------------------------------------------------
(* The frame loop: the application calls reset(), start() and stop(), the  *)
(* window fires the pending timers, and a frameRepeat callback runs to its *)
(* end before anything else is called.                                     *)

\* the ROM sets: a kernal that runs into the illegal opcode 0x02 after a
\* NOP (and into it again if it is run further), and one that idles in
\* NOP; JMP $E000
FrameRoms ==
    { [segments |-> << <<\hE000, <<\hEA, \h02, \h02, \h02>> >>, RomVectors >> \o RomHandlers],
      [segments |-> << <<\hE000, <<\hEA, \h4C, \h00, \hE0>> >>, RomVectors >> \o RomHandlers] }

\* new Vic20(canvas): the machine before the first reset()
StartFrame ==
    [cpu |-> NewCpu, mem |-> EmptyMem,
     bus |-> [expansion |-> "unexpanded", devices |-> TRUE],
     via1 |-> NewVia, via2 |-> NewVia, vic |-> NewVic, lastNmi |-> FALSE,
     err |-> "none", log |-> <<>>]

\* Vic6560.cyclesPerFrame
cyclesPerFrame(chip) ==
    Timing(chip.videoRegion).LinesPerFrame * Timing(chip.videoRegion).CyclesPerLine

\* the next state is the machine n of the host h with history o
CommitFrame(n, h, o) ==
    /\ cpu' = n.cpu /\ mem' = n.mem /\ bus' = n.bus
    /\ via1' = n.via1 /\ via2' = n.via2 /\ vic' = n.vic
    /\ lastNmi' = n.lastNmi /\ err' = n.err /\ host' = h /\ asm' = asm
    /\ obs' = o

\* obs.frame after the step op that took the host to h and the machine to n
FrameStep(op, h, n) ==
    [obs EXCEPT
       !.frame = [calls |-> @.calls + (IF op \in {"start", "stop", "reset"} THEN 1 ELSE 0),
                  fired |-> @.fired + (IF op = "timer" THEN 1 ELSE 0),
                  op |-> op,
                  cycled |-> op \in {"tick", "idle"},
                  scheduled |-> op = "end" /\ h.timers # host.timers,
                  drawn |-> op \in {"tick", "idle"} /\ n.vic.cycle < vic.cycle,
                  stopped |-> \/ op = "stop"
                              \/ op = "tick" /\ h.break
                              \/ @.stopped /\ op # "start",
                  loaded |-> op = "reset" \/ (@.loaded /\ op # "start"),
                  fatal |-> \/ op = "tick" /\ n.err # "none"
                            \/ @.fatal /\ op \notin {"start", "reset"},
                  was |-> [stopped |-> @.stopped, loaded |-> @.loaded, fatal |-> @.fatal],
                  pre |-> host]]

InitFrame ==
    \E rom \in FrameRoms : \E debug \in BOOLEAN :
       \E n \in {StartFrame} :
          /\ cpu = n.cpu /\ mem = n.mem /\ bus = n.bus
          /\ via1 = n.via1 /\ via2 = n.via2 /\ vic = n.vic
          /\ lastNmi = n.lastNmi /\ err = n.err /\ obs = InitObs
          /\ asm = NoAsm
          /\ host = [NewHost EXCEPT !.roms = rom, !.debug = debug,
                                    !.debugHandler = IF debug THEN \hE001 ELSE Null]

\* the application may call the machine when no callback is running
Idle == host.frame = Null /\ obs.frame.calls < MaxCalls

\* Vic20.start(), of a machine that has been reset with its ROM set
CallStart ==
    /\ Idle /\ mem # EmptyMem
    /\ CommitFrame(Machine, start(host), FrameStep("start", start(host), Machine))

\* Vic20.stop()
CallStop ==
    /\ Idle
    /\ CommitFrame(Machine, stop(host), FrameStep("stop", stop(host), Machine))

\* Vic20.reset() with a valid ROM set: the pending timer is cleared, Memory,
\* Cpu, Vic6560 and the VIAs are made anew (lastNmi is kept), the ROMs are
\* loaded, the VIAs and the CPU reset, and a timer is set.  The call
\* this.Vic6560.reset() is to a method the source does not define; it is
\* taken to change nothing but the chip, which is replaced right after.
CallReset ==
    /\ Idle
    /\ \E h \in {Vic20_reset(host)} :
          \E n \in {[StartMachine(host.roms) EXCEPT !.lastNmi = lastNmi]} :
             CommitFrame(n, h, FrameStep("reset", h, n))

\* the window calls the callback of a pending timer: frameRepeat begins
TimerFires ==
    /\ host.frame = Null /\ obs.frame.fired < MaxFrames
    /\ \E id \in host.timers :
          \E h \in {[clearTimeout(host, id) EXCEPT !.frame = 0]} :
             CommitFrame(Machine, h, FrameStep("timer", h, Machine))

\* the machine after j more raster lines of the idle loop NOP; JMP, taken up
\* at the start of a raster line and of the NOP: the loop takes 5 ticks and
\* a line a multiple of that, so that the CPU is where it was; both VIAs
\* have counted down, and the video chip has written the line of its last
\* cycle into CR3 / CR4
idle(m, j) ==
    The({ [m EXCEPT !.cpu.c = @ + k, !.via1 = elapse(@, k), !.via2 = elapse(@, k),
                    !.vic = vic_write(vic_write([@ EXCEPT !.cycle = @ + k], 4,
                                                line([m.vic EXCEPT !.cycle = @ + k - 1]) \div 2),
                                      3, BitOr(BitAnd(vic_read(m.vic, 3), \h7F),
                                               (line([m.vic EXCEPT !.cycle = @ + k - 1]) % 2) * 128))] :
          k \in {j * Timing(m.vic.videoRegion).CyclesPerLine} })

\* the least of a set of numbers
Min(numbers) == CHOOSE n \in numbers : \A o \in numbers : n <= o

\* the raster lines the idle loop can be run through in one step: up to the
\* last line of the frame() call and of the picture, and of the time in
\* which no timer of a VIA runs out
idleLines ==
    The({ Min({ cyclesPerFrame(vic) - host.frame - 1, cyclesPerFrame(vic) - vic.cycle - 1,
                getTimer(via1, 1) - 3, getTimer(via1, 2) - 3,
                getTimer(via2, 1) - 3, getTimer(via2, 2) - 3 }) \div k :
          k \in {Timing(vic.videoRegion).CyclesPerLine} })

\* the machine idles: no debug handler is called, the CPU is about to fetch
\* the NOP of the loop with no interrupt requested, no line of a VIA is up,
\* and a raster line has just begun
Idling ==
    /\ host.frame # Null /\ ~host.break /\ ~host.debug
    /\ cpu.PC = \hE000 /\ cpu.Cycles = 0 /\ ~cpu.requiresIrq /\ ~cpu.requiresNmi
    /\ readMem(mem, \hE000) = \hEA /\ readMem(mem, \hE001) = \h4C
    /\ readMem(mem, \hE002) = \h00 /\ readMem(mem, \hE003) = \hE0
    /\ ~lastNmi /\ ~Line(via1) /\ ~Line(via2)
    /\ vic.cycle > 0 /\ vic.cycle % Timing(vic.videoRegion).CyclesPerLine = 0
    /\ idleLines > 0

\* Vic20.frame(), the iterations of an idling machine up to the last raster
\* line, in one step: each of them calls cycle()
FrameIdle ==
    /\ Idling
    /\ \E h \in {[host EXCEPT !.frame = @ + idleLines * Timing(vic.videoRegion).CyclesPerLine]} :
          CommitFrame(idle(Machine, idleLines), h,
                      FrameStep("idle", h, idle(Machine, idleLines)))

\* Vic20.frame(), one iteration with the machine not stopped: cycle(), then
\* the debug handler.  An exception ends the callback.
FrameTick ==
    /\ host.frame # Null /\ host.frame < cyclesPerFrame(vic) /\ ~host.break
    /\ ~Idling
    /\ \E n \in {Vic20_cycle([Machine EXCEPT !.err = "none"])} :
          \E h \in {IF n.err # "none" THEN [host EXCEPT !.frame = Null]
                    ELSE debugHandler([host EXCEPT !.frame = @ + 1], n)} :
             CommitFrame(n, h, FrameStep("tick", h, n))

\* Vic20.frame(), the iterations left once the machine is stopped: none of
\* them calls cycle()
FrameSkip ==
    /\ host.frame # Null /\ host.frame < cyclesPerFrame(vic) /\ host.break
    /\ \E h \in {[host EXCEPT !.frame = cyclesPerFrame(vic)]} :
          CommitFrame(Machine, h, FrameStep("skip", h, Machine))

\* Vic20.frameRepeat() after frame()
FrameEnd ==
    /\ host.frame # Null /\ host.frame = cyclesPerFrame(vic)
    /\ CommitFrame(Machine, frameRepeat(host), FrameStep("end", frameRepeat(host), Machine))

NextFrame ==
    \/ CallStart \/ CallStop \/ CallReset \/ TimerFires
    \/ FrameTick \/ FrameIdle \/ FrameSkip \/ FrameEnd

SpecFrame == InitFrame /\ [][NextFrame]_vars

-----------------------------------------------------------------------------
(* The assembler on its own: Assemble(source) of a small program that ends *)
(* in a branch to a label, and AssembleLine(line, pc, labels) of a branch  *)
(* alone, as the unit tests call them.                                     *)

\* the names of the label, and the branch instructions as they are written
LabelNames == {<<"L", "O", "O", "P">>, <<"d", "e", "c", "r", "e", "m", "e", "n", "t">>, <<"A">>, <<"X", "_", "1">>}
BranchNames == {<<"B", "N", "E">>, <<"B", "E", "Q">>, <<"b", "c", "c">>}

\* the addresses of the branch and of the label in a call of AssembleLine
BranchAddresses == {0, 8, \hFE, \h1000}
LabelAddresses == {0, 2, \h82, \h1000, \hFFFF}

\* the program of the unit test 'Assemble' up to its branch, with the name
\* of the label and the branch instruction chosen: LDX #$08; name: DEX;
\* STX $0200; CPX #$03; Bxx name; BRK
Source(mnemonic, name) ==
    << <<"L", "D", "X", " ", "#", "$", "0", "8">>, name \o <<":">>, <<" ", " ", " ", " ", "D", "E", "X">>, <<"S", "T", "X", " ", "$", "0", "2", "0", "0">>,
       <<"C", "P", "X", " ", "#", "$", "0", "3", " ", ";", "l", "o", "o", "p">>, <<" ", " ">> \o mnemonic \o <<" ">> \o name,
       <<"B", "R", "K">> >>

\* cpu.Assemble(source) or cpu.AssembleLine(branch, pc, {name: address}) is
\* about to be called
InitAssemble ==
    /\ cpu = NewCpu /\ mem = EmptyMem /\ bus = [expansion |-> "unexpanded", devices |-> FALSE]
    /\ via1 = NewVia /\ via2 = NewVia /\ vic = NewVic /\ lastNmi = FALSE
    /\ err = "none" /\ host = NewHost /\ obs = InitObs
    /\ \E mnemonic \in BranchNames : \E name \in LabelNames :
          \/ asm = [NoAsm EXCEPT !.kind = "source", !.lines = Source(mnemonic, name),
                                 !.job = [mnemonic |-> mnemonic, name |-> name]]
          \/ \E pc \in BranchAddresses : \E address \in LabelAddresses :
                asm = [NoAsm EXCEPT !.kind = "line",
                                    !.lines = <<mnemonic \o <<" ">> \o name>>,
                                    !.pc = pc,
                                    !.labels = [n \in {toUpperCase(name)} |-> address],
                                    !.job = [mnemonic |-> mnemonic, name |-> name]]

\* asm after the call AssembleLine(text, asm.pc, asm.labels) returned r
Assembled(text, r) ==
    [asm EXCEPT !.lines = Tail(@), !.pc = @ + Len(r.bytes), !.labels = r.labels,
                !.bytes = @ \o r.bytes, !.err = r.err, !.called = TRUE,
                !.last = [text |-> text, pc |-> asm.pc, labels |-> asm.labels,
                          bytes |-> r.bytes]]

\* "line.split(';')[0]"
code(text) ==
    IF \E i \in 1..Len(text) : text[i] = ";"
    THEN SubSeq(text, 1, (CHOOSE i \in 1..Len(text) :
                            text[i] = ";" /\ \A k \in 1..(i - 1) : text[k] # ";") - 1)
    ELSE text

\* cpu6502d.Assemble, one line of the source: the comment is removed, a line
\* that is not empty is assembled at pc, which moves on by its bytes
AssembleStep ==
    /\ asm.kind = "source" /\ asm.lines # <<>> /\ asm.err = "none"
    /\ \E text \in {toUpperCase(trim(code(Head(asm.lines))))} :
          asm' = IF text = <<>> THEN [asm EXCEPT !.lines = Tail(@), !.called = FALSE]
                 ELSE Assembled(text, AssembleLine(text, asm.pc, asm.labels))
    /\ UNCHANGED <<cpu, mem, bus, via1, via2, vic, lastNmi, err, host, obs>>

\* cpu6502d.AssembleLine(line, pc, labels) called from outside
CallAssembleLine ==
    /\ asm.kind = "line" /\ asm.lines # <<>>
    /\ asm' = Assembled(Head(asm.lines), AssembleLine(Head(asm.lines), asm.pc, asm.labels))
    /\ UNCHANGED <<cpu, mem, bus, via1, via2, vic, lastNmi, err, host, obs>>

NextAssemble == AssembleStep \/ CallAssembleLine

SpecAssemble == InitAssemble /\ [][NextAssemble]_vars

-----------------------------------------------------------------------------
(* Claims about one arithmetic instruction, checked under SpecAlu.         *)

\* the instruction at 0x1000 was executed
AluDone == obs.called /\ obs.exec /\ err = "none"

\* the operand byte of the instruction
AluOperand == readMem(mem, \h1001)

\* the instruction ran in decimal mode
AluDecimal == BitAnd(obs.pre.P, Decimal) # 0

\* C11: after every instruction A, X and Y are within 0..0xFF, in binary and
\* in decimal mode and for every operand, valid BCD or not.
C11_RegistersAreBytes ==
    AluDone => cpu.A \in 0..255 /\ cpu.X \in 0..255 /\ cpu.Y \in 0..255

\* C11 happens: SBC in decimal mode borrowed in both digits, with an
\* accumulator and an operand that are not valid BCD
C11_DecimalNotBcd ==
    /\ AluDone /\ obs.last.op = \hE9 /\ AluDecimal
    /\ obs.pre.A = \h0A /\ AluOperand = \hFF /\ cpu.A \in 0..255

\* the number that a BCD byte encodes, and the BCD byte of a number below 100
dec(b) == 10 * (b \div 16) + (b % 16)
bcd(n) == 16 * (n \div 10) + (n % 10)

\* the decimal sum of an ADC: accumulator + operand + carry in
DecimalSum == dec(obs.pre.A) + dec(AluOperand) + (IF BitAnd(obs.pre.P, Carry) # 0 THEN 1 ELSE 0)

\* C19: in decimal mode, for valid BCD A and M and every carry in, ADC leaves
\* A = the BCD encoding of (dec(A) + dec(M) + C) mod 100 and sets C iff the
\* sum is at least 100; 0x19 + 0x28 + 0 gives A = 0x47 with C, Z and N clear.
C19_DecimalAdc ==
    (AluDone /\ obs.last.op = \h69 /\ AluDecimal /\ obs.pre.A \in Bcd /\ AluOperand \in Bcd)
    => /\ cpu.A = bcd(DecimalSum % 100)
       /\ (BitAnd(cpu.P, Carry) # 0) <=> (DecimalSum >= 100)
       /\ (obs.pre.A = \h19 /\ AluOperand = \h28 /\ BitAnd(obs.pre.P, Carry) = 0)
          => cpu.A = \h47 /\ BitAnd(cpu.P, Carry + Zero + Negative) = 0

\* C19 happens: 0x19 + 0x28 in decimal mode carried from the low digit
C19_Adc19Plus28 ==
    /\ AluDone /\ obs.last.op = \h69 /\ AluDecimal
    /\ obs.pre.A = \h19 /\ AluOperand = \h28 /\ BitAnd(obs.pre.P, Carry) = 0
    /\ cpu.A = \h47

-----------------------------------------------------------------------------
(* Claims about the CPU on its own, checked under SpecCpu.                 *)

\* the last step was a call of cpu.cycle() entered at an instruction boundary
\* that returned normally
AtBoundary == obs.called /\ obs.pre.Cycles = 0 /\ err = "none"

\* the hardware interrupts the last call serviced, in order
Serviced == Tagged(obs.log, {"irq", "nmi"})

\* the word the memory holds at a vector
Vector(at) == readMem(mem, at) + 256 * readMem(mem, at + 1)

\* C1: a call of cycle() entered at an instruction boundary with requiresNmi
\* and requiresIrq both latched and the I flag clear services only the NMI:
\* it pushes one return address and one status byte (three bytes, the NMI
\* handler's first instruction pushing none), the instruction it goes on to
\* fetch is the one the vector at 0xFFFA points to, and requiresIrq is still
\* latched when the call returns
C1_OnlyNmiServiced ==
    (AtBoundary /\ obs.pre.requiresNmi /\ obs.pre.requiresIrq
                /\ BitAnd(obs.pre.P, Interrupt) = 0)
    => /\ Serviced = << <<"nmi", \hFFFA>> >>
       /\ Len(Pushed(obs.log)) = 3
       /\ cpu.lastPc = Vector(\hFFFA)
       /\ cpu.requiresIrq

\* C2: a latched IRQ waits for the I flag.  A call of cycle() that begins
\* with requiresIrq latched services the IRQ exactly when it is entered at an
\* instruction boundary with the I flag clear: then the IRQ is the first
\* interrupt serviced, through the vector at 0xFFFE (the instruction fetched
\* next is the vector's target, or the NMI serviced behind it pushes that
\* target as its return address), and requiresIrq is cleared; in every other
\* call (I set, or not at a boundary) no IRQ is serviced and requiresIrq
\* stays latched
C2_IrqWaitsForIClear ==
    (obs.called /\ err = "none" /\ obs.pre.requiresIrq)
    => IF obs.pre.Cycles = 0 /\ BitAnd(obs.pre.P, Interrupt) = 0
       THEN /\ Serviced # <<>> /\ Serviced[1] = <<"irq", \hFFFE>>
            /\ Len(Tagged(obs.log, {"irq"})) = 1
            /\ ~cpu.requiresIrq
            /\ IF Len(Serviced) = 1 THEN cpu.lastPc = Vector(\hFFFE)
               ELSE Pushed(obs.log)[4] * 256 + Pushed(obs.log)[5] = Vector(\hFFFE)
       ELSE Tagged(obs.log, {"irq"}) = <<>> /\ cpu.requiresIrq

\* C2: an IRQ that waited is serviced -- the call services the IRQ, and the
\* instruction executed before it (a CLI) began with the IRQ latched and the
\* I flag set
C2_ServicedAfterWaiting ==
    /\ AtBoundary /\ obs.exec /\ Serviced = << <<"irq", \hFFFE>> >>
    /\ obs.prev.op = \h58 /\ obs.prev.held

\* C1: the case of the claim arises -- a call entered at a boundary with
\* both requests latched and the I flag clear has returned
C1_BothLatched ==
    AtBoundary /\ obs.pre.requiresNmi /\ obs.pre.requiresIrq
               /\ BitAnd(obs.pre.P, Interrupt) = 0

\* the interrupts (hardware and BRK) the last call entered, in order
Entries == Tagged(obs.log, {"irq", "nmi", "brk"})

\* the last call executed an RTI and entered no interrupt before it
RtiExecuted == AtBoundary /\ obs.exec /\ obs.last.op = \h40 /\ obs.last.clean

\* the machine as it was when that RTI began, with f as the byte on top of
\* the stack (an RTI changes only P, SP and PC, and leaves the stack cells)
BeforeRti(f) ==
    [Machine EXCEPT !.cpu.P = obs.pre.P, !.cpu.SP = obs.pre.SP, !.cpu.PC = obs.pre.PC,
                    !.mem = writeMem(mem, StackBase + ((obs.pre.SP + 1) % 256), f)]

\* C6: an IRQ, NMI or BRK whose handler executes nothing but NOPs and ends
\* with RTI is undone by the RTI: A, X, Y, P and SP are what they were just
\* before the interrupt was taken and PC is the return address it pushed
C6_RtiRestoresRegisters ==
    (AtBoundary /\ obs.exec /\ obs.ret.kind \in {"irq", "nmi", "brk"} /\ obs.ret.plain)
    => Regs(cpu) = [obs.ret.cpu EXCEPT !.PC = obs.ret.ra]

\* C6: a hardware interrupt was taken and its RTI has restored the registers
C6_HardwareInterruptUndone ==
    /\ AtBoundary /\ obs.exec /\ obs.ret.kind \in {"irq", "nmi"} /\ obs.ret.plain
    /\ Regs(cpu) = [obs.ret.cpu EXCEPT !.PC = obs.ret.ra]

\* C7: a call that enters one interrupt pushes the high byte of the return
\* address, then its low byte, then the status byte; the status byte is P
\* with bit 5 set and bit 4 clear for IRQ and NMI and with both set for BRK,
\* and PHP pushes P with both set
C7_PushedStatusBits ==
    /\ (AtBoundary /\ obs.exec /\ Len(Entries) = 1) =>
          /\ Len(Pushed(obs.log)) >= 3
          /\ Pushed(obs.log)[1] * 256 + Pushed(obs.log)[2] =
                IF Entries[1][1] = "brk" THEN (obs.pre.PC + 2) % \h10000 ELSE obs.pre.PC
          /\ BitAnd(Pushed(obs.log)[3], \hCF) = BitAnd(obs.pre.P, \hCF)
          /\ BitAnd(Pushed(obs.log)[3], \h30) =
                IF Entries[1][1] = "brk" THEN \h30 ELSE \h20
    /\ (AtBoundary /\ obs.exec /\ Entries = <<>> /\ obs.last.op = \h08) =>
          Pushed(obs.log) = << BitOr(obs.pre.P, \h30) >>

\* C7: BRK and PHP do push the status with bits 4 and 5 set
C7_SoftwarePushes ==
    /\ AtBoundary /\ obs.exec /\ obs.last.op \in {\h00, \h08} /\ obs.last.clean
    /\ Pushed(obs.log) # <<>>
    /\ BitAnd(Pushed(obs.log)[Len(Pushed(obs.log))], \h30) = \h30

\* C8: RTI ignores bits 4 and 5 of the byte it pulls: the other six bits of
\* P are those of the pulled byte, and bits 4 and 5 of P are what they would
\* be had the pulled byte been any other
C8_RtiIgnoresBits4And5 ==
    RtiExecuted =>
      /\ BitAnd(cpu.P, \hCF) =
            BitAnd(readMem(mem, StackBase + ((obs.pre.SP + 1) % 256)), \hCF)
      /\ \A f \in {\h00, \h10, \h20, \h30, \hFF} :
            BitAnd(rti(BeforeRti(f)).cpu.P, \h30) = BitAnd(cpu.P, \h30)

\* C8: an RTI has pulled a status byte and the six flags are those of the byte
C8_RtiPulledFlags ==
    /\ RtiExecuted /\ obs.ret.kind = "none"
    /\ BitAnd(cpu.P, \hCF) = \hCF
    /\ readMem(mem, StackBase + ((obs.pre.SP + 1) % 256)) = \hFF

\* C9: an RTS executed right after the JSR at address a (no instruction in
\* between, no interrupt entered) leaves PC = (a + 3) mod 0x10000 and SP as
\* it was before the JSR
C9_JsrRtsReturns ==
    (AtBoundary /\ obs.exec /\ obs.last.op = \h60 /\ obs.last.clean
                /\ obs.prev.op = \h20 /\ obs.prev.clean)
    => cpu.PC = (obs.prev.at + 3) % \h10000 /\ cpu.SP = obs.prev.cpu.SP

\* C9: the example of the specification -- JSR at 0x1000 with SP = 0xFF, then
\* RTS: PC = 0x1003 and SP = 0xFF
C9_JsrAt1000 ==
    /\ AtBoundary /\ obs.exec /\ obs.last.op = \h60 /\ obs.prev.op = \h20
    /\ obs.prev.at = \h1000 /\ obs.prev.cpu.SP = \hFF
    /\ cpu.PC = \h1003 /\ cpu.SP = \hFF

\* C10: after every call of cycle() that returns the program counter is
\* within 0..0xFFFF
C10_PcInRange == (obs.called /\ err = "none") => cpu.PC \in 0..\hFFFF

\* C10: the instruction at 0xFFFF was fetched and executed, and the program
\* counter is in range after it
C10_Fetched ==
    AtBoundary /\ obs.exec /\ obs.last.at = \hFFFF /\ cpu.PC \in 0..\hFFFF

\* BPL, BMI, BVC, BVS, BCC, BCS, BNE, BEQ
BranchOpcodes == {\h10, \h30, \h50, \h70, \h90, \hB0, \hD0, \hF0}

\* cpu6502.instructionComplete
instructionComplete == cpu.Cycles = 0

\* C12: from an instruction boundary, a non-branch instruction with base
\* cycles n leaves instructionComplete false after each of the first n - 1
\* calls of cycle() and true after the n-th, and Cycles is never negative.
C12_BaseCycles ==
    /\ cpu.Cycles >= 0
    /\ (err = "none" /\ obs.last.op \in (DOMAIN opCodes6502Documented) \ BranchOpcodes)
       => /\ obs.since \in 1..opCodes6502Documented[obs.last.op].cycles
          /\ instructionComplete <=> obs.since = opCodes6502Documented[obs.last.op].cycles

\* C12 happens: the seventh call of cycle() for a BRK completed it
C12_BrkCompleted ==
    err = "none" /\ obs.called /\ obs.last.op = \h00 /\ obs.since = 7 /\ instructionComplete

\* the call of cycle() raised the fatal error for an opcode not in its table
FatalOpcode == obs.called /\ err = "Invalid instruction"

\* the numbers of the report of the fatal error
ReportedByte == Tagged(obs.log, {"Invalid instruction"})[1][2]
ReportedOffset == Tagged(obs.log, {"found at offset"})[1][2]

\* C13: when the byte fetched at an instruction boundary is not in the
\* opcode table, the fatal error reports that byte and the address from
\* which it was fetched.
C13_ReportsOpcodeAddress ==
    FatalOpcode => ReportedByte = readMem(mem, cpu.lastPc) /\ ReportedOffset = cpu.lastPc

\* C13 happens: the byte 0x03 fetched at 0x1001 raised the fatal error, and
\* the report holds the byte
C13_FatalAt1001 ==
    FatalOpcode /\ cpu.lastPc = \h1001 /\ readMem(mem, \h1001) = \h03 /\ ReportedByte = \h03

\* the illegal NOPs of the undocumented table
IllegalNops ==
    {o \in DOMAIN opcodes6502Undocumented : opcodes6502Undocumented[o].instruction = "NOP"}

\* a call of cycle() at an instruction boundary, without interrupt entry,
\* that fetched the byte b
Decoded(b) ==
    /\ obs.called /\ obs.pre.Cycles = 0 /\ err \in {"none", "Invalid instruction"}
    /\ Tagged(obs.log, {"irq", "nmi"}) = <<>>
    /\ cpu.lastPc = obs.pre.PC /\ readMem(mem, cpu.lastPc) = b

\* C14: an illegal NOP of the undocumented table raises no error, advances
\* PC by its length and leaves A, X, Y, SP and P unchanged; only opcodes in
\* neither table take the fatal-error path.
C14_IllegalNopCompletes ==
    /\ \A b \in IllegalNops :
          Decoded(b) =>
             /\ err = "none"
             /\ Regs(cpu) = [Regs(obs.pre) EXCEPT
                   !.PC = (@ + getBytes(opcodes6502Undocumented[b].addressMode)) % \h10000]
    /\ FatalOpcode =>
          readMem(mem, cpu.lastPc) \notin
             (DOMAIN opCodes6502Documented) \cup (DOMAIN opcodes6502Undocumented)

\* C14 happens: the byte 0x03, which is in neither table, took the
\* fatal-error path
C14_NeitherTableFatal == Decoded(\h03) /\ FatalOpcode

-----------------------------------------------------------------------------
(* Claims about the whole machine, checked under Spec.                     *)

\* a tick was made and ran to its end
Ticked == obs.tick.n > 0 /\ err = "none"

\* the calls one tick makes on the chips, in order
ChipCalls ==
    Tagged(obs.log, {"via1.cycleUp", "via2.cycleUp", "Cpu.cycle", "Vic6560.Cycle",
                     "via1.cycleDown", "via2.cycleDown"})

\* the chip calls and the interrupt requests of one tick, in order
CallsAndRequests ==
    Tagged(obs.log, {"via1.cycleUp", "via2.cycleUp", "Cpu.cycle", "Vic6560.Cycle",
                     "via1.cycleDown", "via2.cycleDown", "requiresNmi", "requiresIrq"})

\* the NMI requests the tick made
NmiRequests == Tagged(obs.log, {"requiresNmi"})

\* C3: within one tick the calls are VIA1.cycleUp, VIA2.cycleUp, Cpu.cycle,
\* Vic6560.Cycle, VIA1.cycleDown, VIA2.cycleDown in this order, and every
\* NMI / IRQ request is made after both cycleUp calls and before Cpu.cycle
C3_TickOrder ==
    Ticked =>
      /\ ChipCalls = << <<"via1.cycleUp", 0>>, <<"via2.cycleUp", 0>>, <<"Cpu.cycle", 0>>,
                        <<"Vic6560.Cycle", 0>>, <<"via1.cycleDown", 0>>,
                        <<"via2.cycleDown", 0>> >>
      /\ \A i \in 1..Len(CallsAndRequests) :
            CallsAndRequests[i][1] \in {"requiresNmi", "requiresIrq"} =>
               /\ i > 2 /\ CallsAndRequests[1][1] = "via1.cycleUp"
               /\ CallsAndRequests[2][1] = "via2.cycleUp"
               /\ \E j \in (i + 1)..Len(CallsAndRequests) :
                     /\ CallsAndRequests[j][1] = "Cpu.cycle"
                     /\ \A k \in (i + 1)..(j - 1) :
                           CallsAndRequests[k][1] \in {"requiresNmi", "requiresIrq"}

\* a tick that requested an interrupt between the cycleUp calls and Cpu.cycle
C3_TickWithRequest ==
    Ticked /\ Len(CallsAndRequests) = 7 /\ CallsAndRequests[3][1] = "requiresIrq"

\* C4: no rise of the line of VIA1 is lost: when the line was down and comes
\* up by a timer running out in cycleUp, or by the CPU enabling a flag that
\* is already set, requiresNmi is latched when the CPU is next clocked after
\* the request point (in the same tick for the timer, in the next tick for
\* the CPU's write)
C4_NoEdgeLost ==
    Ticked =>
      /\ (~obs.tick.start /\ obs.tick.up => obs.pre.requiresNmi)
      /\ (obs.tick.before => obs.pre.requiresNmi)

\* the timer of VIA1 ran out in cycleUp with the line down, and the NMI is latched
C4_TimerEdgeLatched ==
    Ticked /\ ~obs.tick.start /\ obs.tick.up /\ ~obs.tick.latched
    /\ obs.pre.requiresNmi /\ Len(NmiRequests) = 1

\* C5: an NMI is requested only in a tick that sampled the line of VIA1 as
\* down at its start and finds it up after the cycleUp calls, and once in
\* such a tick: a line that stays up from one sample to the next requests
\* nothing further
C5_OneNmiPerEdge ==
    Ticked =>
      /\ Len(NmiRequests) <= 1
      /\ (NmiRequests # <<>> => ~obs.tick.start /\ obs.tick.up /\ lastNmi = FALSE)

\* the line of VIA1 was up at the start of the tick and is up again after
\* the cycleUp calls, no NMI is latched, and the tick requests none
C5_LineStaysUp ==
    Ticked /\ obs.tick.start /\ obs.tick.up /\ ~obs.tick.latched /\ NmiRequests = <<>>

-----------------------------------------------------------------------------
(* Claims about reset, checked under SpecReset.                            *)

\* the little-endian word stored at 0xFFFC
ResetVector == readMem(mem, \hFFFC) + 256 * readMem(mem, \hFFFD)

\* C15: after reset(pc) for any pc in 0..0xFFFF, pc = 0 included, PC = pc;
\* after reset() without a pc, PC is the word stored at 0xFFFC; in both cases
\* A, X, Y and SP are 0 and Cycles is 0.
C15_ResetSetsPc ==
    obs.reset.done =>
       /\ err = "none"
       /\ cpu.PC = IF obs.reset.pc = Null THEN ResetVector ELSE obs.reset.pc
       /\ cpu.A = 0 /\ cpu.X = 0 /\ cpu.Y = 0 /\ cpu.SP = 0 /\ cpu.Cycles = 0

\* C15 happens: reset(0xFFFF) in the middle of an instruction, with A and SP
\* loaded, set PC to 0xFFFF and cleared the registers and Cycles
C15_ResetMidInstruction ==
    /\ obs.reset.done /\ obs.reset.pc = \hFFFF /\ cpu.PC = \hFFFF
    /\ obs.pre.A # 0 /\ obs.pre.SP # 0 /\ obs.pre.Cycles > 0
    /\ cpu.A = 0 /\ cpu.SP = 0 /\ cpu.Cycles = 0

-----------------------------------------------------------------------------
(* Claims about Memory, checked under SpecMemory.                          *)

\* C16: readWord(offset) returns mem[offset] | (mem[(offset + 1) mod 0x10000] << 8)
\* and raises no error for any offset in 0..0xFFFF; readWord(0xFFFF) takes
\* its high byte from mem[0x0000].
C16_ReadWordWraps ==
    obs.word.done =>
       /\ err = "none"
       /\ obs.word.v = readMem(mem, obs.word.offset)
                       + 256 * readMem(mem, (obs.word.offset + 1) % \h10000)

\* C16 happens: readWord(0xFFFE) returned the byte installed at 0xFFFF as
\* its high byte
C16_ReadWordFFFE ==
    /\ obs.word.done /\ obs.word.offset = \hFFFE /\ err = "none"
    /\ readMem(mem, \hFFFF) = \h5A /\ obs.word.v = \h5A00

\* the target of the STA of the program
StoreTarget == readMem(mem, \h1003) + 256 * readMem(mem, \h1004)

\* the STA of the program was executed
Stored == obs.called /\ obs.exec /\ obs.last.op = \h8D

\* C20: in every memory model other than test, a CPU write to an address of
\* the character ROM, the BASIC ROM or the kernal ROM is discarded: the
\* address reads as before the write, and no error is raised.
C20_RomWriteDiscarded ==
    (bus.expansion # "test" /\ obs.last.op \in {\h8D, \hEA} /\ ~obs.word.done
        /\ StoreTarget \in RomOffsets)
    => err = "none" /\ readByte(Machine, StoreTarget).v = \h5A

\* C20 happens: STA $8000 of 0xA5 was executed under a memory model other
\* than test and the character ROM reads as before
C20_CharacterRomKept ==
    /\ bus.expansion = "expanded_8k" /\ Stored /\ err = "none"
    /\ StoreTarget = \h8000 /\ cpu.A = \hA5 /\ readByte(Machine, \h8000).v = \h5A

-----------------------------------------------------------------------------
(* Claims about the indirect addressing modes, checked under SpecLoad.     *)

\* the operand byte of the load and the load that was executed
LoadOperand == readMem(mem, \h1001)
Loaded(op) == obs.called /\ readMem(mem, \h1000) = op

\* the zero-page address of the pointer of LDA (operand,X)
XIndZ == (LoadOperand + cpu.X) % \h100

\* C17: in X,ind mode the low byte of the pointer is read at
\* z = (operand + X) mod 0x100 and its high byte at (z + 1) mod 0x100, so for
\* z = 0xFF the high byte comes from 0x0000 and the read stays in page zero.
C17_XIndStaysInPageZero ==
    Loaded(\hA1) =>
       /\ err = "none"
       /\ cpu.A = readMem(mem, readMem(mem, XIndZ) + 256 * readMem(mem, (XIndZ + 1) % \h100))

\* C17 happens: LDA ($FF,X) with X = 1 read its pointer at 0x00 and 0x01
C17_XIndWrapsOperand ==
    /\ Loaded(\hA1) /\ err = "none" /\ LoadOperand = \hFF /\ cpu.X = 1
    /\ readMem(mem, 0) = \hF0 /\ readMem(mem, 1) = \h20 /\ cpu.A = \hC3

\* the 16-bit pointer at the zero-page operand of LDA (operand),Y
IndYPointer == readMem(mem, LoadOperand) + 256 * readMem(mem, LoadOperand + 1)

\* C18: in ind,Y mode the effective address is (the pointer read at the
\* zero-page operand + Y) mod 0x10000, within 0..0xFFFF for every pointer and
\* every Y, a pointer high byte of 0xFF with a carry out of the low byte
\* included.
C18_IndYWraps ==
    Loaded(\hB1) =>
       /\ err = "none"
       /\ cpu.A = readMem(mem, (IndYPointer + cpu.Y) % \h10000)

\* C18 happens: LDA ($10),Y with the pointer 0x20F0 and Y = 0x10 carried
\* into the high byte and loaded from 0x2100
C18_IndYCarries ==
    /\ Loaded(\hB1) /\ err = "none" /\ IndYPointer = \h20F0 /\ cpu.Y = \h10
    /\ readMem(mem, \h2100) = \hC3 /\ cpu.A = \hC3

-----------------------------------------------------------------------------
(* Claims about the VIA, checked under SpecVia.                            *)

\* the last step read the register r / was a reset
ViaReadOf(r) == obs.via.op.kind = "read" /\ obs.via.op.register = r
ViaWasReset == obs.via.op.kind = "reset"

\* T1 is in one-shot mode: ACR bit 6 = 0
OneShot == ExtractBits(via1.reg[RB_ACR], 6, 6) = 0

\* C21: a read of IFR returns bits 0-6 as stored and bit 7 set iff
\* (IFR & IER & 0x7F) != 0; with flags set but none enabled, bit 7 reads 0.
C21_IfrBit7IffEnabled ==
    ViaReadOf(RD_IFR) =>
       /\ obs.via.op.v % 128 = obs.via.pre.reg[RD_IFR] % 128
       /\ (obs.via.op.v >= 128)
          <=> (BitAnd(obs.via.pre.reg[RD_IFR], obs.via.pre.reg[RE_IER]) % 128 # 0)

\* C21 happens: IFR was read with the T1 flag set and enabled, and bit 7 and
\* bit 6 read 1
C21_EnabledFlagRead ==
    /\ ViaReadOf(RD_IFR) /\ obs.via.op.v = \hC0
    /\ Flag(obs.via.pre, R6_T1) /\ BitAnd(obs.via.pre.reg[RE_IER], \h40) # 0

\* C22: with ACR bit 6 = 0, after T1 is loaded with N (R4, then R5), IFR
\* bit 6 stays clear during the first N ticks and is set during tick N + 1,
\* a tick being cycleUp followed by cycleDown; for N = 0x10 it is set after
\* 17 ticks and not earlier.
C22_T1ExpiresAfterNPlus1 ==
    (obs.via.timer = "t1" /\ OneShot /\ obs.via.ops = 0 /\ ~obs.via.idled)
    => (Flag(via1, R6_T1) <=> obs.via.ticks >= obs.via.N + 1)

\* C22 happens: T1 loaded with 0x0010 set IFR bit 6 in the 17th tick
C22_SeventeenTicks ==
    /\ obs.via.timer = "t1" /\ OneShot /\ obs.via.N = \h10 /\ obs.via.ops = 0
    /\ obs.via.ticks = 17 /\ obs.via.op.kind = "tick"
    /\ ~Flag(obs.via.pre, R6_T1) /\ Flag(via1, R6_T1)

\* C23: in one-shot mode, after T1 has expired once and IFR bit 6 has been
\* cleared by a read of R4, no later pass of the counter through zero sets
\* IFR bit 6 again until R5 is written.
C23_T1OneShotOnce ==
    (obs.via.timer = "t1" /\ OneShot /\ obs.via.cleared /\ ~obs.via.rearmed)
    => ~Flag(via1, R6_T1)

\* C23 happens: T1 expired in one-shot mode, a read of R4 cleared IFR bit 6,
\* and the counter runs on from 0xFFFF
C23_T1ClearedByRead ==
    /\ obs.via.timer = "t1" /\ OneShot /\ obs.via.cleared /\ ~obs.via.rearmed
    /\ ViaReadOf(R4_T1C_L) /\ Flag(obs.via.pre, R6_T1) /\ ~Flag(via1, R6_T1)
    /\ via1.inhibitT1 /\ getTimer(via1, 1) > \hFF00

\* C24: after T2 expires T2 is inhibited: once IFR bit 5 is cleared by a
\* write to RD, with R9 not written and R8 not read, the counter passing
\* through zero again never sets IFR bit 5.
C24_T2OneShotOnce ==
    (obs.via.timer = "t2" /\ obs.via.cleared /\ ~obs.via.rearmed)
    => ~Flag(via1, R5_T2)

\* C24 happens: T2 expired (the counter was set to 0xFFFF) and a write to RD
\* cleared IFR bit 5
C24_T2ClearedByWrite ==
    /\ obs.via.timer = "t2" /\ obs.via.cleared /\ ~obs.via.rearmed
    /\ obs.via.op.kind = "write" /\ Flag(obs.via.pre, R5_T2) /\ ~Flag(via1, R5_T2)
    /\ getTimer(via1, 2) > \hFF00

\* the T2 counter k ticks after it was loaded with N, k <= N
T2Elapsed ==
    obs.via.timer = "t2" /\ obs.via.ops = 1 /\ ~obs.via.idled /\ obs.via.ticks <= obs.via.N

\* C25: a read of R8 returns the low byte and a read of R9 the high byte of
\* the current T2 counter: k ticks after T2 was loaded with N (k <= N) the
\* two reads give N - k.
C25_T2CounterRead ==
    /\ (T2Elapsed /\ ViaReadOf(R8_T2C_L)) =>
          obs.via.op.v = (obs.via.N - obs.via.ticks) % 256
    /\ (T2Elapsed /\ ViaReadOf(R9_T2C_H)) =>
          obs.via.op.v = (obs.via.N - obs.via.ticks) \div 256

\* C25 happens: R8 read right after T2 was loaded with 0x0103 returned 0x03
C25_T2ReadAtLoad ==
    /\ T2Elapsed /\ ViaReadOf(R8_T2C_L) /\ obs.via.N = \h0103 /\ obs.via.ticks = 0
    /\ obs.via.op.v = \h03 /\ obs.via.pre.T2C = \h0103

\* C26: a read of R1 returns (external_port_a & ~DDRA) | (ORA & DDRA), as
\* R0 does for port B.
C26_PortARead ==
    ViaReadOf(1) =>
       obs.via.op.v = BitOr(BitClear(obs.via.pre.portA, obs.via.pre.reg[3]),
                            BitAnd(obs.via.pre.reg[1], obs.via.pre.reg[3]))

\* C26 happens: R1 was read with every pin of port A an input, and the read
\* returned the external port
C26_PortAInputsRead ==
    /\ ViaReadOf(1) /\ obs.via.pre.reg[3] = 0 /\ obs.via.pre.reg[1] = \hA5
    /\ obs.via.pre.portA = \h3C /\ obs.via.op.v = \h3C

\* C27: after reset(), whatever the registers held before, R0-R3 and RB-RF
\* hold zero (IER bits 0-6 are 0: no interrupt enabled; IFR bits 0-6 are 0:
\* no flag pending), R4-RA hold 0xFF and both timer inhibits are true.
C27_ResetClearsRegisters ==
    ViaWasReset =>
       /\ \A r \in (0..3) \cup {RB_ACR, 12, 15} : via1.reg[r] = 0
       /\ via1.reg[RD_IFR] % 128 = 0 /\ via1.reg[RE_IER] % 128 = 0
       /\ \A r \in 4..10 : via1.reg[r] = \hFF
       /\ via1.inhibitT1 /\ via1.inhibitT2

\* C27 happens: a reset of a chip whose T1 had run out with its flag set put
\* 0xFF into R4-RA, cleared IFR and set both inhibits
C27_ResetAfterTimeOut ==
    /\ ViaWasReset /\ Flag(obs.via.pre, R6_T1) /\ obs.via.pre.reg[RE_IER] % 128 = 0
    /\ \A r \in 4..10 : via1.reg[r] = \hFF
    /\ via1.reg[RD_IFR] % 128 = 0 /\ via1.inhibitT1 /\ via1.inhibitT2

-----------------------------------------------------------------------------
(* Claims about the video chip, checked under SpecVideo.                   *)

\* the cycle just processed: its number in the frame, its line, its place in
\* the line
VideoAt == obs.video.pre.cycle
VideoLine == VideoAt \div Timing(vic.videoRegion).CyclesPerLine
VideoRowCycle == VideoAt % Timing(vic.videoRegion).CyclesPerLine

\* the cycle just processed lay in vertical blanking (the first
\* VerticalBlankRows lines) or in horizontal blanking (the last
\* HorizontalBlankCycles cycles of a line)
VideoBlanking ==
    \/ VideoLine < Timing(vic.videoRegion).VerticalBlankRows
    \/ VideoRowCycle >= Timing(vic.videoRegion).CyclesPerLine
                        - Timing(vic.videoRegion).HorizontalBlankCycles

\* the cells of the frame buffer written by the cycle just processed
CellsWritten ==
    [i \in 1..Len(Tagged(obs.log, {"_data32"})) |-> Tagged(obs.log, {"_data32"})[i][2]]

\* C28: a cycle in vertical or horizontal blanking writes no cell of the
\* frame buffer; every other cycle writes exactly four cells, at
\* raster * screen_width + row_pixel up to + 3, and then row_pixel has
\* advanced by 4.
C28_FourCellsPerVisibleCycle ==
    obs.video.done =>
       IF VideoBlanking THEN CellsWritten = <<>>
       ELSE /\ CellsWritten =
                  [j \in 1..4 |->
                      (VideoLine - Timing(vic.videoRegion).VerticalBlankRows)
                      * ScreenWidth(vic) + obs.video.pre.rowPixel + (j - 1)]
            /\ vic.rowPixel = obs.video.pre.rowPixel + 4

\* C28 happens: the first cycle of the first visible line of a PAL frame
\* wrote the cells 0 to 3, inside the text area (three fetches were made)
C28_FirstVisibleCycle ==
    /\ obs.video.done /\ vic.videoRegion = "pal" /\ VideoAt = 27 * 71
    /\ CellsWritten = <<0, 1, 2, 3>> /\ vic.rowPixel = 4
    /\ Len(Tagged(obs.log, {"Memory.readByte"})) = 3

\* C29: after every cycle the 9-bit value (CR4 << 1) | (CR3 >> 7) is the
\* line of the cycle just processed (cycle counter divided by
\* cycles_per_line, rounded down), and bits 0-6 of CR3 are unchanged.
C29_RasterRegisters ==
    obs.video.done =>
       /\ vic.ControlRegisters[4] * 2 + vic.ControlRegisters[3] \div 128 = VideoLine
       /\ vic.ControlRegisters[3] % 128 = obs.video.pre.ControlRegisters[3] % 128

\* C29 happens: on line 257 CR4 holds 128 and bit 7 of CR3 is 1, the other
\* bits of CR3 being those the program wrote
C29_Line257 ==
    /\ obs.video.done /\ VideoLine = 257
    /\ vic.ControlRegisters[4] = 128 /\ vic.ControlRegisters[3] = \hFE

\* the fetches of the cycle just processed: << offset, address >>
Fetched ==
    [i \in 1..Len(Tagged(obs.log, {"MapMemory"})) |->
        << Tagged(obs.log, {"MapMemory"})[i][2], Tagged(obs.log, {"Memory.readByte"})[i][2] >>]

\* (o & 0x1FFF) | (~((o & 0x2000) << 2) & 0x8000)
Mapped(o) == (o % \h2000) + (IF (o \div \h2000) % 2 = 1 THEN 0 ELSE \h8000)

\* C30: for every offset o the raster engine produces (screen, colour and
\* character fetches, offsets of 0x4FFF and above included) the address read
\* is (o & 0x1FFF) | (~((o & 0x2000) << 2) & 0x8000), which depends only on
\* the low 14 bits of o.
C30_FetchesMapped14Bits ==
    \A i \in 1..Len(Fetched) :
       /\ Fetched[i][2] = Mapped(Fetched[i][1])
       /\ Fetched[i][2] = Mapped(Fetched[i][1] % \h4000)

\* C30 happens: the screen fetch at offset 0x3E00 read 0x1E00, the character
\* fetch at 0x07F8 read character ROM at 0x87F8 and the colour fetch at
\* 0x1600 read colour RAM at 0x9600
C30_DefaultScreenFetch ==
    /\ obs.video.done /\ Len(Fetched) = 3
    /\ Fetched[1] = <<\h3E00, \h1E00>>
    /\ Fetched[2] = <<\h07F8, \h87F8>>
    /\ Fetched[3] = <<\h1600, \h9600>>

\* the cells of the frame buffer that the cycle just processed tried to
\* write outside the buffer
CellsDropped == Tagged(obs.log, {"_data32 dropped"})

\* C39: in either region and with any of the register contents, rowPixel
\* is 0 when a raster line begins and never more than ScreenWidth, every
\* cell a cycle writes has its index in 0 .. ScreenWidth * ScreenHeight - 1,
\* and the cycle counter is in 0 .. cyclesPerFrame - 1.
C39_VideoRanges ==
    /\ vic.cycle >= 0 /\ vic.cycle < cyclesPerFrame(vic)
    /\ vic.cycle % Timing(vic.videoRegion).CyclesPerLine = 0 => vic.rowPixel = 0
    /\ vic.rowPixel >= 0 /\ vic.rowPixel <= ScreenWidth(vic)
    /\ CellsDropped = <<>>
    /\ \A i \in 1..Len(CellsWritten) :
          CellsWritten[i] >= 0 /\ CellsWritten[i] < ScreenWidth(vic) * ScreenHeight(vic)

\* C39: the last visible cycle of the last line of a PAL frame has written
\* the last cell of the buffer, and rowPixel is ScreenWidth
C39_LastCell ==
    /\ obs.video.done /\ vic.videoRegion = "pal"
    /\ Len(CellsWritten) = 4
    /\ CellsWritten[4] = ScreenWidth(vic) * ScreenHeight(vic) - 1
    /\ vic.rowPixel = ScreenWidth(vic)

-----------------------------------------------------------------------------
(* Claims about the frame loop, checked under SpecFrame.                   *)

\* C31: after reset() with a valid ROM set, and until start() is called, no
\* frame timer is pending and no step of the frame loop calls cycle().
C31_LoadedNotRunning ==
    obs.frame.loaded => host.timers = {} /\ ~obs.frame.cycled

\* C31: reset() has just loaded the ROM set and reset the CPU through the
\* reset vector
C31_ResetLoaded ==
    /\ obs.frame.op = "reset" /\ cpu.PC = \hE000 /\ readMem(mem, \hE000) = \hEA
    /\ host.frame = Null

\* C32: a step of the frame loop taken after stop() was called (by the
\* application or by the debug handler within a frame) and before start() is
\* called again neither calls cycle() nor sets the timer of the next frame.
C32_StoppedNoTick ==
    obs.frame.was.stopped => ~obs.frame.cycled /\ ~obs.frame.scheduled

\* C32: the debug handler has stopped the machine in the middle of a frame
\* (the application has called nothing but reset()), and the rest of the
\* frame has gone by
C32_StoppedInFrame ==
    /\ obs.frame.op = "end" /\ obs.frame.was.stopped /\ host.debug
    /\ obs.frame.calls = 1 /\ host.break /\ vic.cycle > 0
    /\ vic.cycle < cyclesPerFrame(vic) - 1

\* C33: a step of the frame loop taken after cycle() raised an exception in
\* a frame (and before the application calls reset() or start() again)
\* neither calls cycle(), nor sets the timer of the next frame, nor draws
\* the frame.
C33_FatalEndsLoop ==
    obs.frame.was.fatal =>
       ~obs.frame.cycled /\ ~obs.frame.scheduled /\ ~obs.frame.drawn

\* C33: cycle() has raised "Invalid instruction" in the frame of the only
\* loop there is: the callback has ended, no timer is pending, the frame was
\* not drawn
C33_FatalLoopEnded ==
    /\ obs.frame.op = "tick" /\ obs.frame.fatal /\ err # "none"
    /\ host.frame = Null /\ host.timers = {} /\ ~obs.frame.drawn

\* C38: at most one frame timer is pending.
C38_OneTimerPending ==
    Cardinality(host.timers) <= 1

\* C38: start() after stop() has left one timer pending, the one kept in
\* timeoutId
C38_StartAfterStop ==
    /\ obs.frame.op = "start" /\ obs.frame.was.stopped
    /\ host.timers = {host.timeoutId}

-----------------------------------------------------------------------------
(* Claims about the trap of the functional tests, checked under SpecTrap.  *)

\* the last step was a call of cycle() at an instruction boundary, with the
\* trap armed and the PC where the instruction executed before was fetched
\* from, and it serviced no interrupt (which would have moved the PC first)
TrapBoundary ==
    /\ obs.called /\ obs.pre.Cycles = 0 /\ obs.pre.trapPc # 0
    /\ obs.pre.PC = obs.pre.lastPc
    /\ Tagged(obs.log, {"irq", "nmi"}) = <<>>

\* C34: with the trap armed, a call of cycle() at an instruction boundary
\* whose PC is that of the instruction executed before raises the error
\* that names that PC and trapPc if the two differ; if they are equal it
\* raises no error and sets trapHit.
C34_TrapOutcome ==
    TrapBoundary =>
       IF obs.pre.PC # obs.pre.trapPc
       THEN /\ err = "Actual trap program counter does not match"
            /\ Tagged(obs.log, {"Actual trap program counter",
                                "expected trap program counter"})
               = << <<"Actual trap program counter", obs.pre.PC>>,
                    <<"expected trap program counter", obs.pre.trapPc>> >>
       ELSE err = "none" /\ cpu.trapHit

\* C34: the self-loop at $1001 was reached with the trap armed at $1004:
\* the error names 0x1001 and 0x1004
C34_TrapMismatch ==
    /\ TrapBoundary /\ obs.pre.PC = \h1001 /\ obs.pre.trapPc = \h1004
    /\ err # "none"

-----------------------------------------------------------------------------
(* Claims about the assembler, checked under SpecAssemble.                 *)

\* the last step called AssembleLine with the branch of the run, the label
\* of the branch being defined before the call
BranchAssembled ==
    /\ asm.called
    /\ toUpperCase(trim(asm.last.text))
       = toUpperCase(asm.job.mnemonic \o <<" ">> \o asm.job.name)
    /\ toUpperCase(asm.job.name) \in DOMAIN asm.last.labels

\* the op code of a branch instruction
BranchOpCode(mnemonic) ==
    CASE toUpperCase(mnemonic) = <<"B", "N", "E">> -> \hD0
      [] toUpperCase(mnemonic) = <<"B", "E", "Q">> -> \hF0
      [] toUpperCase(mnemonic) = <<"B", "C", "C">> -> \h90

\* C35: a branch at pc whose operand is a label defined at L assembles,
\* without an error, to the op code of the branch and the byte
\* (L - (pc + 2)) mod 256.
C35_BranchToLabel ==
    BranchAssembled =>
       /\ asm.err = "none"
       /\ asm.last.bytes
          = << BranchOpCode(asm.job.mnemonic),
               (asm.last.labels[toUpperCase(asm.job.name)] - (asm.last.pc + 2)) % 256 >>

\* C35: the program of the unit test: BNE decrement at 8, with decrement
\* defined at 2, assembles to D0 F8
C35_BneDecrement ==
    /\ BranchAssembled /\ asm.kind = "source" /\ asm.job.name = <<"d", "e", "c", "r", "e", "m", "e", "n", "t">>
    /\ asm.last.pc = 8 /\ asm.last.labels[<<"D", "E", "C", "R", "E", "M", "E", "N", "T">>] = 2
    /\ asm.last.bytes = <<\hD0, \hF8>>

-----------------------------------------------------------------------------
(* Claims about the interrupt line of a VIA, checked under SpecLine.       *)

\* T1 was loaded in one-shot mode with its interrupt enabled, nothing but
\* ticks and reads of the line followed, the counter has run out (N + 1
\* ticks, and not yet a second time), and the last step read the line
OneShotSampled ==
    /\ obs.via.timer = "t1" /\ ExtractBits(getReg(via1, RB_ACR), 6, 7) = 0
    /\ ExtractBits(getReg(via1, RE_IER), 6, 6) = 1
    /\ obs.via.ops = 0 /\ ~obs.via.idled /\ obs.via.ticks >= obs.via.N + 1
    /\ obs.via.op.kind = "irq"

\* C36: in one-shot mode with IER bit 6 set, once the counter has run out
\* after the load the line has become true once: among the reads of the
\* line there is one, and only one, that is true after a false one.
C36_OneShotInterrupt ==
    OneShotSampled => obs.via.edges = 1

\* C36: the line is read after the time-out of a one-shot T1 whose
\* interrupt is enabled: IFR bit 6 is set
C36_ExpiredSampled ==
    OneShotSampled /\ Flag(obs.via.pre, R6_T1) /\ obs.via.ticks = obs.via.N + 1

\* C37: a read of the line leaves IFR as it was.
C37_SampleKeepsIfr ==
    obs.via.op.kind = "irq" => via1.reg[RD_IFR] = obs.via.pre.reg[RD_IFR]

\* C37: the line is read twice while the T1 flag is set, and the flag is
\* still set
C37_FlagKeptOverSamples ==
    /\ obs.via.op.kind = "irq" /\ obs.via.samples >= 2
    /\ Flag(obs.via.pre, R6_T1) /\ Flag(via1, R6_T1)

=============================================================================
